---- MODULE Spec2Model ----
(***************************************************************************)
(* A model of terraform-provider-stripe: the four resource handlers        *)
(* (webhook endpoint, product, price, coupon), their populateModel,        *)
(* buildCreateParams and buildUpdateParams translations and the shared     *)
(* null/empty normalisation helpers of utils.go.                           *)
(*                                                                         *)
(* A framework attribute value (types.String, types.Bool, types.Int64,     *)
(* types.Float64, types.List, types.Map, types.Object) is a record with a  *)
(* state k in {"null", "unknown", "value"} and, when known, its value v.   *)
(* Collections are the typed values that Plan.Get / State.Get decode from  *)
(* the schema.  A Go pointer or slice or map field of a stripe params      *)
(* struct is Nil or Ptr(x).  Floats are modelled by integers.              *)
(***************************************************************************)
EXTENDS Integers, Sequences, FiniteSets, TLC

VARIABLES kind, pc, state, plan, remote, params, model, op, diags, calls

vars == <<kind, pc, state, plan, remote, params, model, op, diags, calls>>

(***************************************************************************)
(* Bounds of the model.                                                    *)
(***************************************************************************)
\* longest list attribute (images, marketing_features, enabled_events, applies_to)
MaxLen == 2
\* number of attributes in which a plan differs from the base model it is drawn from
MaxEdits == 2

(***************************************************************************)
(* Attribute values and Go pointers.                                       *)
(***************************************************************************)
Null == [k |-> "null"]

Unknown == [k |-> "unknown"]

Val(x) == [k |-> "value", v |-> x]

Nil == [p |-> "nil"]

Ptr(x) == [p |-> "set", v |-> x]

IsNull(a) == a.k = "null"

IsUnknown(a) == a.k = "unknown"

\* a faulty Equal under which two null values are not equal
Equal_NullsDiffer(a, b) == a.k = "value" /\ b.k = "value" /\ a.v = b.v

\* attr.Value.Equal: same state and, when both are known, the same value
Equal(a, b) == a.k = b.k /\ (a.k = "value" => a.v = b.v)

\* ValueString / ValueBool: the known value, the zero value otherwise
ValueString(s) == IF s.k = "value" THEN s.v ELSE ""

ValueBool(b) == IF b.k = "value" THEN b.v ELSE FALSE

\* Value<T>Pointer: nil for null, a pointer to the zero value for unknown
ValueStringPointer(s) ==
  IF s.k = "null" THEN Nil ELSE IF s.k = "unknown" THEN Ptr("") ELSE Ptr(s.v)

ValueBoolPointer(b) ==
  IF b.k = "null" THEN Nil ELSE IF b.k = "unknown" THEN Ptr(FALSE) ELSE Ptr(b.v)

ValueInt64Pointer(i) ==
  IF i.k = "null" THEN Nil ELSE IF i.k = "unknown" THEN Ptr(0) ELSE Ptr(i.v)

ValueFloat64Pointer(f) ==
  IF f.k = "null" THEN Nil ELSE IF f.k = "unknown" THEN Ptr(0) ELSE Ptr(f.v)

\* List.Elements / Map.Elements: the elements of a known collection, none otherwise
ListElements(l) == IF l.k = "value" THEN l.v ELSE <<>>

MapElements(m) == IF m.k = "value" THEN m.v ELSE [x \in {} |-> Null]

(***************************************************************************)
(* utils.go                                                                *)
(***************************************************************************)
RECURSIVE AppendStringPtrs(_, _)
\* the loop of convertListToStringPtrs: a nil pointer for a null element
AppendStringPtrs(strings, elements) ==
  IF elements = <<>> THEN strings
  ELSE AppendStringPtrs(
         Append(strings, IF IsNull(Head(elements)) THEN Nil
                         ELSE Ptr(ValueString(Head(elements)))),
         Tail(elements))

\* `var strings []*string` stays nil when nothing is appended
convertListToStringPtrs(tflist) ==
  IF IsUnknown(tflist) \/ IsNull(tflist) THEN Nil
  ELSE IF ListElements(tflist) = <<>> THEN Nil
  ELSE Ptr(AppendStringPtrs(<<>>, ListElements(tflist)))

\* a faulty Float64NullIfEmpty that keeps the zero
Float64NullIfEmpty_Keeps(input) == Val(input)

Float64NullIfEmpty(input) == IF input = 0 THEN Null ELSE Val(input)

Int64NullIfEmpty(input) == IF input = 0 THEN Null ELSE Val(input)

\* a faulty StringNullIfEmpty that keeps the empty string
StringNullIfEmpty_Keeps(input) == Val(input)

StringNullIfEmpty(input) == IF input = "" THEN Null ELSE Val(input)

\* a faulty ListValueNullIfEmpty that passes an empty list through
ListValueNullIfEmpty_KeepsEmpty(input) == IF IsNull(input) THEN Null ELSE input

ListValueNullIfEmpty(input) ==
  IF IsNull(input) \/ Len(ListElements(input)) = 0 THEN Null ELSE input

\* a faulty MapValueNullIfEmpty that passes an empty map through
MapValueNullIfEmpty_KeepsEmpty(input) == IF IsNull(input) THEN Null ELSE input

MapValueNullIfEmpty(input) ==
  IF IsNull(input) \/ DOMAIN MapElements(input) = {} THEN Null ELSE input

\* a faulty EmptyStringIfNull that omits the field instead of clearing it
EmptyStringIfNull_Omits(s) == ValueStringPointer(s)

EmptyStringIfNull(s) == IF IsNull(s) THEN Ptr("") ELSE ValueStringPointer(s)

(***************************************************************************)
(* The metadata loops shared by the three buildUpdateParams: AddMetadata   *)
(* of every plan key with its value, then of every state key that the plan *)
(* lacks with "".  params.Metadata stays nil when AddMetadata never runs.   *)
(* The keys of a Go map are distinct, so the iteration order is immaterial.*)
(***************************************************************************)
\* a faulty metadata diff that never clears the keys the plan dropped
AddMetadataDiff_NoClear(stateMetadata, planMetadata) ==
  IF DOMAIN planMetadata = {} THEN Nil
  ELSE Ptr([key \in DOMAIN planMetadata |-> ValueString(planMetadata[key])])

AddMetadataDiff(stateMetadata, planMetadata) ==
  LET removed == DOMAIN stateMetadata \ DOMAIN planMetadata
      keys == DOMAIN planMetadata \cup removed
  IN IF keys = {} THEN Nil
     ELSE Ptr([key \in keys |->
                 IF key \in DOMAIN planMetadata
                 THEN ValueString(planMetadata[key]) ELSE ""])

\* a faulty create that sends no metadata
AddMetadataAll_None(planMetadata) == Nil

\* the metadata loop of the buildCreateParams: AddMetadata of every plan key
AddMetadataAll(planMetadata) ==
  IF DOMAIN planMetadata = {} THEN Nil
  ELSE Ptr([key \in DOMAIN planMetadata |-> ValueString(planMetadata[key])])

(***************************************************************************)
(* Webhook endpoint                                                        *)
(***************************************************************************)
WebhookEndpointParams ==
  [APIVersion |-> Nil, Description |-> Nil, Disabled |-> Nil,
   EnabledEvents |-> Nil, Metadata |-> Nil, URL |-> Nil]

WebhookEndpointResource_buildUpdateParams(st, pl) ==
  [WebhookEndpointParams EXCEPT
     !.Description =
        IF ~Equal(pl.Description, st.Description)
        THEN (IF IsNull(pl.Description) THEN Ptr("")
              ELSE ValueStringPointer(pl.Description))
        ELSE Nil,
     !.Disabled =
        IF ~Equal(pl.Disabled, st.Disabled)
        THEN ValueBoolPointer(pl.Disabled) ELSE Nil,
     !.EnabledEvents =
        IF ~Equal(pl.EnabledEvents, st.EnabledEvents)
        THEN convertListToStringPtrs(pl.EnabledEvents) ELSE Nil,
     !.Metadata =
        IF ~Equal(pl.Metadata, st.Metadata)
        THEN AddMetadataDiff(MapElements(st.Metadata), MapElements(pl.Metadata))
        ELSE Nil,
     !.URL =
        IF ~Equal(pl.URL, st.URL) THEN ValueStringPointer(pl.URL) ELSE Nil]

(***************************************************************************)
(* Product                                                                 *)
(***************************************************************************)
ProductParams ==
  [ID |-> Nil, Active |-> Nil, DefaultPrice |-> Nil, Description |-> Nil,
   Images |-> Nil, MarketingFeatures |-> Nil, Metadata |-> Nil, Name |-> Nil,
   PackageDimensions |-> Nil, Shippable |-> Nil, StatementDescriptor |-> Nil,
   TaxCode |-> Nil, UnitLabel |-> Nil, URL |-> Nil]

RECURSIVE AppendMarketingFeatures(_, _)
\* the loop over plan.MarketingFeatures.Elements() appending {Name: ...}
AppendMarketingFeatures(features, elements) ==
  IF elements = <<>> THEN features
  ELSE AppendMarketingFeatures(
         Append(features, [Name |-> ValueStringPointer(Head(elements))]),
         Tail(elements))

\* a faulty decomposition that sends the length as the height
PackageDimensionsParams_Swapped(obj) ==
  Ptr([Height |-> ValueFloat64Pointer(obj.v.Length),
       Length |-> ValueFloat64Pointer(obj.v.Height),
       Weight |-> ValueFloat64Pointer(obj.v.Weight),
       Width |-> ValueFloat64Pointer(obj.v.Width)])

\* PackageDimensions.As(...) followed by the four Value Float64Pointer calls
PackageDimensionsParams(obj) ==
  Ptr([Height |-> ValueFloat64Pointer(obj.v.Height),
       Length |-> ValueFloat64Pointer(obj.v.Length),
       Weight |-> ValueFloat64Pointer(obj.v.Weight),
       Width |-> ValueFloat64Pointer(obj.v.Width)])

ZeroPackageDimensionsParams ==
  Ptr([Height |-> Ptr(0), Length |-> Ptr(0), Weight |-> Ptr(0), Width |-> Ptr(0)])

ProductResource_buildUpdateParams(st, pl) ==
  [ProductParams EXCEPT
     !.Active =
        IF ~Equal(pl.Active, st.Active) THEN ValueBoolPointer(pl.Active) ELSE Nil,
     !.DefaultPrice =
        IF ~Equal(pl.DefaultPrice, st.DefaultPrice)
        THEN EmptyStringIfNull(pl.DefaultPrice) ELSE Nil,
     !.Description =
        IF ~Equal(pl.Description, st.Description)
        THEN EmptyStringIfNull(pl.Description) ELSE Nil,
     !.Images =
        IF ~Equal(pl.Images, st.Images)
        THEN convertListToStringPtrs(pl.Images) ELSE Nil,
     !.MarketingFeatures =
        IF ~Equal(pl.MarketingFeatures, st.MarketingFeatures)
        THEN Ptr(AppendMarketingFeatures(<<>>, ListElements(pl.MarketingFeatures)))
        ELSE Nil,
     !.Metadata =
        IF ~Equal(pl.Metadata, st.Metadata)
        THEN AddMetadataDiff(MapElements(st.Metadata), MapElements(pl.Metadata))
        ELSE Nil,
     !.Name =
        IF ~Equal(pl.Name, st.Name) THEN ValueStringPointer(pl.Name) ELSE Nil,
     !.PackageDimensions =
        IF ~Equal(pl.PackageDimensions, st.PackageDimensions)
        THEN (IF IsNull(pl.PackageDimensions) THEN ZeroPackageDimensionsParams
              ELSE PackageDimensionsParams(pl.PackageDimensions))
        ELSE Nil,
     !.Shippable =
        IF ~Equal(pl.Shippable, st.Shippable)
        THEN ValueBoolPointer(pl.Shippable) ELSE Nil,
     !.StatementDescriptor =
        IF ~Equal(pl.StatementDescriptor, st.StatementDescriptor)
        THEN EmptyStringIfNull(pl.StatementDescriptor) ELSE Nil,
     !.TaxCode =
        IF ~Equal(pl.TaxCode, st.TaxCode) THEN EmptyStringIfNull(pl.TaxCode) ELSE Nil,
     !.UnitLabel =
        IF ~Equal(pl.UnitLabel, st.UnitLabel)
        THEN EmptyStringIfNull(pl.UnitLabel) ELSE Nil,
     !.URL =
        IF ~Equal(pl.URL, st.URL) THEN EmptyStringIfNull(pl.URL) ELSE Nil]

(***************************************************************************)
(* Price                                                                   *)
(***************************************************************************)
PriceParams ==
  [Active |-> Nil, BillingScheme |-> Nil, Currency |-> Nil, LookupKey |-> Nil,
   Metadata |-> Nil, Nickname |-> Nil, Product |-> Nil, TaxBehavior |-> Nil,
   Tiers |-> Nil, TiersMode |-> Nil, UnitAmount |-> Nil,
   UnitAmountDecimal |-> Nil]

\* returns &stripe.PriceParams{} whatever the state and the plan are
PriceResource_buildUpdateParams(st, pl) == PriceParams

(***************************************************************************)
(* Coupon                                                                  *)
(***************************************************************************)
CouponParams ==
  [ID |-> Nil, AmountOff |-> Nil, AppliesTo |-> Nil, Currency |-> Nil,
   CurrencyOptions |-> Nil, Duration |-> Nil, DurationInMonths |-> Nil,
   MaxRedemptions |-> Nil, Metadata |-> Nil, Name |-> Nil, PercentOff |-> Nil,
   RedeemBy |-> Nil]

\* a faulty loop that sends every plan key, also those the state already has
AddedCurrencyOptions_All(stateCurrencyOptions, planCurrencyOptions) ==
  [key \in DOMAIN planCurrencyOptions |->
     [AmountOff |-> ValueInt64Pointer(planCurrencyOptions[key].AmountOff)]]

\* the loop over planCurrencyOptions: only the keys the state lacks are set
AddedCurrencyOptions(stateCurrencyOptions, planCurrencyOptions) ==
  [key \in DOMAIN planCurrencyOptions \ DOMAIN stateCurrencyOptions |->
     [AmountOff |-> ValueInt64Pointer(planCurrencyOptions[key].AmountOff)]]

CouponResource_buildUpdateParams(st, pl) ==
  [CouponParams EXCEPT
     !.CurrencyOptions =
        IF ~Equal(pl.CurrencyOptions, st.CurrencyOptions)
        THEN Ptr(AddedCurrencyOptions(MapElements(st.CurrencyOptions),
                                      MapElements(pl.CurrencyOptions)))
        ELSE Nil,
     !.Metadata =
        IF ~Equal(pl.Metadata, st.Metadata)
        THEN AddMetadataDiff(MapElements(st.Metadata), MapElements(pl.Metadata))
        ELSE Nil,
     !.Name =
        IF ~Equal(pl.Name, st.Name) THEN EmptyStringIfNull(pl.Name) ELSE Nil]

(***************************************************************************)
(* buildCreateParams of the four resources.                                *)
(***************************************************************************)
WebhookEndpointResource_buildCreateParams(pl) ==
  [WebhookEndpointParams EXCEPT
     !.APIVersion =
        IF ~IsNull(pl.APIVersion) THEN ValueStringPointer(pl.APIVersion) ELSE Nil,
     !.Description =
        IF ~IsNull(pl.Description) THEN ValueStringPointer(pl.Description) ELSE Nil,
     !.EnabledEvents =
        IF ~IsNull(pl.EnabledEvents)
        THEN convertListToStringPtrs(pl.EnabledEvents) ELSE Nil,
     !.Metadata =
        IF ~IsNull(pl.Metadata) THEN AddMetadataAll(MapElements(pl.Metadata)) ELSE Nil,
     !.URL = IF ~IsNull(pl.URL) THEN ValueStringPointer(pl.URL) ELSE Nil]

ProductResource_buildCreateParams(pl) ==
  [ProductParams EXCEPT
     !.ID = IF ~IsUnknown(pl.Id) THEN ValueStringPointer(pl.Id) ELSE Nil,
     !.Active = IF ~IsUnknown(pl.Active) THEN ValueBoolPointer(pl.Active) ELSE Nil,
     !.DefaultPrice =
        IF ~IsUnknown(pl.DefaultPrice)
        THEN ValueStringPointer(pl.DefaultPrice) ELSE Nil,
     !.Description =
        IF ~IsUnknown(pl.Description) THEN ValueStringPointer(pl.Description) ELSE Nil,
     !.Images =
        IF ~IsUnknown(pl.Images) THEN convertListToStringPtrs(pl.Images) ELSE Nil,
     !.MarketingFeatures =
        IF ~IsUnknown(pl.MarketingFeatures) /\ ~IsNull(pl.MarketingFeatures)
        THEN Ptr(AppendMarketingFeatures(<<>>, ListElements(pl.MarketingFeatures)))
        ELSE Nil,
     !.Metadata =
        IF ~IsNull(pl.Metadata) THEN AddMetadataAll(MapElements(pl.Metadata)) ELSE Nil,
     !.Name = IF ~IsUnknown(pl.Name) THEN ValueStringPointer(pl.Name) ELSE Nil,
     !.PackageDimensions =
        IF ~IsUnknown(pl.PackageDimensions) /\ ~IsNull(pl.PackageDimensions)
        THEN PackageDimensionsParams(pl.PackageDimensions) ELSE Nil,
     !.Shippable =
        IF ~IsUnknown(pl.Shippable) THEN ValueBoolPointer(pl.Shippable) ELSE Nil,
     !.StatementDescriptor =
        IF ~IsUnknown(pl.StatementDescriptor)
        THEN ValueStringPointer(pl.StatementDescriptor) ELSE Nil,
     !.TaxCode =
        IF ~IsUnknown(pl.TaxCode) THEN ValueStringPointer(pl.TaxCode) ELSE Nil,
     !.UnitLabel =
        IF ~IsUnknown(pl.UnitLabel) THEN ValueStringPointer(pl.UnitLabel) ELSE Nil,
     !.URL = IF ~IsUnknown(pl.URL) THEN ValueStringPointer(pl.URL) ELSE Nil]

\* returns &stripe.PriceParams{} whatever the plan is
PriceResource_buildCreateParams(pl) == PriceParams

RECURSIVE AppendProducts(_, _)
\* the loop over data.AppliesTo.Elements() appending to cat.Products
AppendProducts(products, elements) ==
  IF elements = <<>> THEN products
  ELSE AppendProducts(
         IF products = Nil THEN Ptr(<<ValueStringPointer(Head(elements))>>)
         ELSE Ptr(Append(products.v, ValueStringPointer(Head(elements)))),
         Tail(elements))

RECURSIVE RouteCurrencyOptions(_, _, _)
\* the loop `for key, element := range currencyOptions`, the keys visited in the
\* given order: a top_level element overwrites AmountOff and Currency, any other
\* element is stored under its key in params.CurrencyOptions
RouteCurrencyOptions(p, currencyOptions, order) ==
  IF order = <<>> THEN p
  ELSE LET key == Head(order)
           element == currencyOptions[key]
       IN RouteCurrencyOptions(
            IF ValueBool(element.TopLevel)
            THEN [p EXCEPT !.AmountOff = ValueInt64Pointer(element.AmountOff),
                           !.Currency = Ptr(key)]
            ELSE [p EXCEPT !.CurrencyOptions =
                    Ptr([c \in DOMAIN p.CurrencyOptions.v \cup {key} |->
                           IF c = key
                           THEN [AmountOff |-> ValueInt64Pointer(element.AmountOff)]
                           ELSE p.CurrencyOptions.v[c]])],
            currencyOptions, Tail(order))

\* order is the order in which Go's range visits the keys of currencyOptions
CouponResource_buildCreateParams(data, order) ==
  LET scalars ==
        [CouponParams EXCEPT
           !.ID = IF ~IsNull(data.Id) /\ ~IsUnknown(data.Id)
                  THEN ValueStringPointer(data.Id) ELSE Nil,
           !.AppliesTo =
              IF ~IsUnknown(data.AppliesTo) /\ ~IsNull(data.AppliesTo)
              THEN Ptr([Products |-> AppendProducts(Nil, ListElements(data.AppliesTo))])
              ELSE Nil,
           !.Duration =
              IF ~IsUnknown(data.Duration)
              THEN ValueStringPointer(data.Duration) ELSE Nil,
           !.DurationInMonths =
              IF ~IsUnknown(data.DurationInMonths)
              THEN ValueInt64Pointer(data.DurationInMonths) ELSE Nil,
           !.Metadata =
              IF ~IsUnknown(data.Metadata)
              THEN AddMetadataAll(MapElements(data.Metadata)) ELSE Nil,
           !.MaxRedemptions =
              IF ~IsUnknown(data.MaxRedemptions)
              THEN ValueInt64Pointer(data.MaxRedemptions) ELSE Nil,
           !.Name = IF ~IsUnknown(data.Name) THEN ValueStringPointer(data.Name) ELSE Nil,
           !.PercentOff =
              IF ~IsUnknown(data.PercentOff)
              THEN ValueFloat64Pointer(data.PercentOff) ELSE Nil,
           !.RedeemBy =
              IF ~IsUnknown(data.RedeemBy)
              THEN ValueInt64Pointer(data.RedeemBy) ELSE Nil]
  IN IF ~IsUnknown(data.CurrencyOptions) /\ ~IsNull(data.CurrencyOptions)
     THEN RouteCurrencyOptions(
            [scalars EXCEPT !.CurrencyOptions = Ptr([c \in {} |-> Nil])],
            MapElements(data.CurrencyOptions), order)
     ELSE scalars

(***************************************************************************)
(* populateModel of the four resources: the remote object is a record of   *)
(* Go values, a nil slice, map or struct pointer is Nil.                   *)
(***************************************************************************)
\* the keys a range loop over a Go map visits; none for a nil map
GoMapKeys(m) == IF m = Nil THEN {} ELSE DOMAIN m.v

\* types.ListValueFrom(ctx, types.StringType, slice): a nil slice gives a null list
ListValueFrom(slice) ==
  IF slice = Nil THEN Null
  ELSE Val([i \in 1..Len(slice.v) |-> Val(slice.v[i])])

\* types.MapValueFrom(ctx, types.StringType, m): a nil map gives a null map
MapValueFrom(m) ==
  IF m = Nil THEN Null
  ELSE Val([key \in DOMAIN m.v |-> Val(m.v[key])])

WebhookEndpointResource_populateModel(m, webhookEndpoint) ==
  [m EXCEPT
     !.APIVersion = StringNullIfEmpty(webhookEndpoint.APIVersion),
     !.Application = StringNullIfEmpty(webhookEndpoint.Application),
     !.Description = StringNullIfEmpty(webhookEndpoint.Description),
     !.EnabledEvents = ListValueFrom(webhookEndpoint.EnabledEvents),
     !.Metadata = MapValueNullIfEmpty(MapValueFrom(webhookEndpoint.Metadata)),
     !.Disabled = Val(webhookEndpoint.Status = "disabled"),
     !.URL = Val(webhookEndpoint.URL)]

\* a faulty package-dimensions conversion that only looks at the height
PackageDimensionsModel_HeightOnly(pd) ==
  IF pd # Nil /\ pd.v.Height # 0
  THEN Val([Height |-> Val(pd.v.Height), Length |-> Val(pd.v.Length),
            Weight |-> Val(pd.v.Weight), Width |-> Val(pd.v.Width)])
  ELSE Null

\* the package_dimensions branch of the product's populateModel
PackageDimensionsModel(pd) ==
  IF pd # Nil /\ pd.v.Height # 0 /\ pd.v.Length # 0 /\ pd.v.Weight # 0
     /\ pd.v.Width # 0
  THEN Val([Height |-> Val(pd.v.Height), Length |-> Val(pd.v.Length),
            Weight |-> Val(pd.v.Weight), Width |-> Val(pd.v.Width)])
  ELSE Null

\* the names of product.MarketingFeatures; appending nothing leaves a nil slice
MarketingFeatureNames(features) ==
  IF Len(features.v) = 0 THEN Nil
  ELSE Ptr([i \in 1..Len(features.v) |-> features.v[i].Name])

ProductResource_populateModel(m, product) ==
  [m EXCEPT
     !.Active = Val(product.Active),
     !.DefaultPrice =
        IF product.DefaultPrice # Nil THEN Val(product.DefaultPrice.v.ID) ELSE @,
     !.Description = StringNullIfEmpty(product.Description),
     !.Images = ListValueNullIfEmpty(ListValueFrom(product.Images)),
     !.MarketingFeatures =
        IF product.MarketingFeatures # Nil
        THEN ListValueNullIfEmpty(
               ListValueFrom(MarketingFeatureNames(product.MarketingFeatures)))
        ELSE @,
     !.Metadata = MapValueNullIfEmpty(MapValueFrom(product.Metadata)),
     !.Name = Val(product.Name),
     !.PackageDimensions = PackageDimensionsModel(product.PackageDimensions),
     !.Shippable = Val(product.Shippable),
     !.StatementDescriptor = StringNullIfEmpty(product.StatementDescriptor),
     !.TaxCode = IF product.TaxCode # Nil THEN Val(product.TaxCode.v.ID) ELSE @,
     !.UnitLabel = StringNullIfEmpty(product.UnitLabel),
     !.URL = StringNullIfEmpty(product.URL)]

PriceResource_populateModel(m, price) ==
  [m EXCEPT
     !.Active = Val(price.Active),
     !.BillingScheme = Val(price.BillingScheme),
     !.Currency = Val(price.Currency),
     !.LookupKey = Val(price.LookupKey),
     !.Nickname = Val(price.Nickname),
     !.Product = Val(price.Product.v.ID),
     !.TaxBehavior = Val(price.TaxBehavior),
     !.Tiers = Null,
     !.TiersMode = Val(price.TiersMode),
     !.UnitAmount = Val(price.UnitAmount),
     !.UnitAmountDecimal = Val(price.UnitAmountDecimal)]

\* a faulty conversion that marks every currency option as the top-level one
CouponCurrencyOptionsModels_AllTop(coupon) ==
  Val([currency \in GoMapKeys(coupon.CurrencyOptions) |->
         [AmountOff |-> Int64NullIfEmpty(coupon.CurrencyOptions.v[currency].AmountOff),
          TopLevel |-> Val(TRUE)]])

\* the map built by the loop over coupon.CurrencyOptions, then MapValueFrom
CouponCurrencyOptionsModels(coupon) ==
  Val([currency \in GoMapKeys(coupon.CurrencyOptions) |->
         [AmountOff |-> Int64NullIfEmpty(coupon.CurrencyOptions.v[currency].AmountOff),
          TopLevel |-> Val(coupon.Currency = currency)]])

CouponResource_populateModel(m, coupon) ==
  [m EXCEPT
     !.AppliesTo =
        IF coupon.AppliesTo # Nil /\ coupon.AppliesTo.v.Products # Nil
        THEN ListValueNullIfEmpty(ListValueFrom(coupon.AppliesTo.v.Products))
        ELSE Null,
     !.CurrencyOptions = MapValueNullIfEmpty(CouponCurrencyOptionsModels(coupon)),
     !.Duration = StringNullIfEmpty(coupon.Duration),
     !.DurationInMonths = Int64NullIfEmpty(coupon.DurationInMonths),
     !.MaxRedemptions = Int64NullIfEmpty(coupon.MaxRedemptions),
     !.Metadata = MapValueNullIfEmpty(MapValueFrom(coupon.Metadata)),
     !.Name = StringNullIfEmpty(coupon.Name),
     !.PercentOff = Float64NullIfEmpty(coupon.PercentOff),
     !.RedeemBy = Int64NullIfEmpty(coupon.RedeemBy)]

(***************************************************************************)
(* The attribute values the schemas admit, over small alphabets.           *)
(***************************************************************************)
Strings == {"a", "b"}

\* an Optional string attribute
OptString == {Null} \cup {Val(s) : s \in Strings \cup {""}}

\* a Required string attribute
ReqString == {Val(s) : s \in Strings}

\* a bool attribute with a static Default is never null in a plan or a state
Bools == {Val(TRUE), Val(FALSE)}

OptNumber == {Null, Val(1), Val(2)}

ListElems == {Val("a"), Val("b"), Null}

RECURSIVE UniqueSeqs(_, _)
\* the sequences of at most n distinct elements of S (listvalidator.UniqueValues)
UniqueSeqs(S, n) ==
  IF n = 0 THEN {<<>>}
  ELSE LET shorter == UniqueSeqs(S, n - 1)
       IN shorter \cup
          UNION {{Append(q, e) : e \in {x \in S : \A i \in 1..Len(q) : q[i] # x}} :
                 q \in shorter}

ReqList == {Val(q) : q \in UniqueSeqs(ListElems, MaxLen)}

OptList == {Null} \cup ReqList

MetaKeys == {"k1", "k2"}

MetaVals == {Val("a"), Val("b"), Val("")}

OptMetadata ==
  {Null} \cup {Val(f) : f \in UNION {[K -> MetaVals] : K \in SUBSET MetaKeys}}

DimVals == {1, 2}

OptPackageDimensions ==
  {Null} \cup
  {Val([Height |-> Val(h), Length |-> Val(l), Weight |-> Val(w), Width |-> Val(x)]) :
     h \in DimVals, l \in DimVals, w \in DimVals, x \in DimVals}

Currencies == {"usd", "gbp"}

\* amount_off is Required with AtLeast(1); top_level has a static Default
CurrencyOptionEntries ==
  {[AmountOff |-> Val(n), TopLevel |-> Val(t)] : n \in {1, 2}, t \in BOOLEAN}

OptCurrencyOptions ==
  {Null} \cup
  {Val(f) : f \in UNION {[K -> CurrencyOptionEntries] : K \in SUBSET Currencies}}

Kinds == {"webhook_endpoint", "product", "price", "coupon"}

\* the domain of attribute a of the model of resource k
Dom(k, a) ==
  CASE k = "webhook_endpoint" ->
         (CASE a \in {"APIVersion", "Description"} -> OptString
            [] a = "Disabled" -> Bools
            [] a = "EnabledEvents" -> ReqList
            [] a = "Metadata" -> OptMetadata
            [] a = "URL" -> ReqString)
    [] k = "product" ->
         (CASE a \in {"Active", "Shippable"} -> Bools
            [] a \in {"DefaultPrice", "Description", "StatementDescriptor",
                      "TaxCode", "UnitLabel", "URL"} -> OptString
            [] a \in {"Images", "MarketingFeatures"} -> OptList
            [] a = "Metadata" -> OptMetadata
            [] a = "Name" -> ReqString
            [] a = "PackageDimensions" -> OptPackageDimensions)
    [] k = "price" ->
         (CASE a = "Active" -> Bools
            [] a = "BillingScheme" -> {Val("per_unit"), Val("tiered")}
            [] a \in {"Currency", "Product"} -> ReqString
            [] a \in {"LookupKey", "Nickname", "TiersMode"} -> OptString
            [] a = "Metadata" -> OptMetadata
            [] a = "TaxBehavior" -> {Val("unspecified"), Val("inclusive")}
            [] a \in {"UnitAmount", "UnitAmountDecimal"} -> OptNumber)
    [] k = "coupon" ->
         (CASE a = "AppliesTo" -> OptList
            [] a = "CurrencyOptions" -> OptCurrencyOptions
            [] a = "Duration" -> {Val("once"), Val("forever")}
            [] a \in {"DurationInMonths", "MaxRedemptions", "RedeemBy",
                      "PercentOff"} -> OptNumber
            [] a = "Metadata" -> OptMetadata
            [] a = "Name" -> OptString)

\* the attributes a configuration can set (id, application and secret are computed)
Configurable(k) ==
  CASE k = "webhook_endpoint" ->
         <<"APIVersion", "Description", "Disabled", "EnabledEvents", "Metadata", "URL">>
    [] k = "product" ->
         <<"Active", "DefaultPrice", "Description", "Images", "MarketingFeatures",
           "Metadata", "Name", "PackageDimensions", "Shippable",
           "StatementDescriptor", "TaxCode", "UnitLabel", "URL">>
    [] k = "price" ->
         <<"Active", "BillingScheme", "Currency", "LookupKey", "Metadata",
           "Nickname", "Product", "TaxBehavior", "TiersMode", "UnitAmount",
           "UnitAmountDecimal">>
    [] k = "coupon" ->
         <<"AppliesTo", "CurrencyOptions", "Duration", "DurationInMonths",
           "MaxRedemptions", "Metadata", "Name", "PercentOff", "RedeemBy">>

\* a stored model with every optional attribute unset
BareModel(k) ==
  CASE k = "webhook_endpoint" ->
         [Id |-> Val("id1"), APIVersion |-> Null, Application |-> Null,
          Description |-> Null, Disabled |-> Val(FALSE),
          EnabledEvents |-> Val(<<Val("a")>>), Metadata |-> Null,
          Secret |-> Val("s1"), URL |-> Val("a")]
    [] k = "product" ->
         [Id |-> Val("id1"), Active |-> Val(TRUE), DefaultPrice |-> Null,
          Description |-> Null, Images |-> Null, MarketingFeatures |-> Null,
          Metadata |-> Null, Name |-> Val("a"), PackageDimensions |-> Null,
          Shippable |-> Val(FALSE), StatementDescriptor |-> Null,
          TaxCode |-> Null, UnitLabel |-> Null, URL |-> Null]
    [] k = "price" ->
         [Id |-> Val("id1"), Active |-> Val(TRUE), BillingScheme |-> Val("per_unit"),
          Currency |-> Val("a"), LookupKey |-> Null, Metadata |-> Null,
          Nickname |-> Null, Product |-> Val("a"), TaxBehavior |-> Val("unspecified"),
          Tiers |-> Null, TiersMode |-> Null, UnitAmount |-> Null,
          UnitAmountDecimal |-> Null]
    [] k = "coupon" ->
         [Id |-> Val("id1"), AppliesTo |-> Null, CurrencyOptions |-> Null,
          Duration |-> Val("once"), DurationInMonths |-> Null,
          MaxRedemptions |-> Null, Metadata |-> Null, Name |-> Null,
          PercentOff |-> Null, RedeemBy |-> Null]

\* a stored model with every attribute set
FullModel(k) ==
  CASE k = "webhook_endpoint" ->
         [Id |-> Val("id1"), APIVersion |-> Val("a"), Application |-> Val("a"),
          Description |-> Val("a"), Disabled |-> Val(TRUE),
          EnabledEvents |-> Val(<<Val("a"), Val("b")>>),
          Metadata |-> Val([key \in MetaKeys |-> Val("a")]),
          Secret |-> Val("s1"), URL |-> Val("b")]
    [] k = "product" ->
         [Id |-> Val("id1"), Active |-> Val(FALSE), DefaultPrice |-> Val("a"),
          Description |-> Val("a"), Images |-> Val(<<Val("a"), Val("b")>>),
          MarketingFeatures |-> Val(<<Val("a"), Val("b")>>),
          Metadata |-> Val([key \in MetaKeys |-> Val("a")]), Name |-> Val("b"),
          PackageDimensions |->
            Val([Height |-> Val(1), Length |-> Val(1), Weight |-> Val(1),
                 Width |-> Val(1)]),
          Shippable |-> Val(TRUE), StatementDescriptor |-> Val("a"),
          TaxCode |-> Val("a"), UnitLabel |-> Val("a"), URL |-> Val("a")]
    [] k = "price" ->
         [Id |-> Val("id1"), Active |-> Val(FALSE), BillingScheme |-> Val("tiered"),
          Currency |-> Val("b"), LookupKey |-> Val("a"),
          Metadata |-> Val([key \in MetaKeys |-> Val("a")]), Nickname |-> Val("a"),
          Product |-> Val("b"), TaxBehavior |-> Val("inclusive"), Tiers |-> Null,
          TiersMode |-> Val("a"), UnitAmount |-> Val(1),
          UnitAmountDecimal |-> Val(1)]
    [] k = "coupon" ->
         [Id |-> Val("id1"), AppliesTo |-> Val(<<Val("a"), Val("b")>>),
          CurrencyOptions |->
            Val([c \in {"usd"} |-> [AmountOff |-> Val(1), TopLevel |-> Val(TRUE)]]),
          Duration |-> Val("forever"), DurationInMonths |-> Val(1),
          MaxRedemptions |-> Val(1),
          Metadata |-> Val([key \in MetaKeys |-> Val("a")]), Name |-> Val("a"),
          PercentOff |-> Null, RedeemBy |-> Val(1)]

RECURSIVE EditsFrom(_, _, _, _)
\* the models got from m by changing at most n of the attributes i.. of Configurable(k)
EditsFrom(k, m, i, n) ==
  IF n = 0 \/ i > Len(Configurable(k)) THEN {m}
  ELSE LET a == Configurable(k)[i]
       IN EditsFrom(k, m, i + 1, n) \cup
          UNION {EditsFrom(k, [m EXCEPT ![a] = x], i + 1, n - 1) :
                 x \in Dom(k, a) \ {m[a]}}

\* the models that differ from m in at most n configurable attributes
Variants(k, m, n) == EditsFrom(k, m, 1, n)

BaseModels(k) == {BareModel(k), FullModel(k)}

\* the states an update starts from: a base model and its one-attribute variants
StoredModels(k) == UNION {Variants(k, m, 1) : m \in BaseModels(k)}

RECURSIVE PlanIsEdit(_, _, _, _)
\* plan is got from m by changing at most n of the attributes i.. of Configurable(k)
PlanIsEdit(k, m, i, n) ==
  \/ plan = m
  \/ /\ n > 0
     /\ \E j \in i..Len(Configurable(k)) :
          \E x \in Dom(k, Configurable(k)[j]) \ {m[Configurable(k)[j]]} :
            PlanIsEdit(k, [m EXCEPT ![Configurable(k)[j]] = x], j + 1, n - 1)

\* the plans drawn for a state: at most MaxEdits attributes away from a base
\* model, one attribute away from any other stored model
PlanDrawn(k, st) == PlanIsEdit(k, st, 1, IF st \in BaseModels(k) THEN MaxEdits ELSE 1)

\* a record, so that it compares with the models and objects a variable can hold
NoValue == [none |-> TRUE]

(***************************************************************************)
(* buildUpdateParams applied to a state and a plan.                        *)
(***************************************************************************)
InitUpdate ==
  /\ kind \in Kinds
  /\ pc = "start"
  /\ state \in StoredModels(kind)
  /\ PlanDrawn(kind, state)
  /\ remote = NoValue
  /\ params = NoValue
  /\ model = NoValue
  /\ op = NoValue
  /\ diags = <<>>
  /\ calls = <<>>

WebhookEndpointBuildUpdateParams ==
  /\ kind = "webhook_endpoint" /\ pc = "start"
  /\ params' = WebhookEndpointResource_buildUpdateParams(state, plan)
  /\ pc' = "updateParams"
  /\ UNCHANGED <<kind, state, plan, remote, model, op, diags, calls>>

ProductBuildUpdateParams ==
  /\ kind = "product" /\ pc = "start"
  /\ params' = ProductResource_buildUpdateParams(state, plan)
  /\ pc' = "updateParams"
  /\ UNCHANGED <<kind, state, plan, remote, model, op, diags, calls>>

PriceBuildUpdateParams ==
  /\ kind = "price" /\ pc = "start"
  /\ params' = PriceResource_buildUpdateParams(state, plan)
  /\ pc' = "updateParams"
  /\ UNCHANGED <<kind, state, plan, remote, model, op, diags, calls>>

CouponBuildUpdateParams ==
  /\ kind = "coupon" /\ pc = "start"
  /\ params' = CouponResource_buildUpdateParams(state, plan)
  /\ pc' = "updateParams"
  /\ UNCHANGED <<kind, state, plan, remote, model, op, diags, calls>>

NextUpdate ==
  \/ WebhookEndpointBuildUpdateParams
  \/ ProductBuildUpdateParams
  \/ PriceBuildUpdateParams
  \/ CouponBuildUpdateParams

SpecUpdate == InitUpdate /\ [][NextUpdate]_vars

(***************************************************************************)
(* Properties of buildUpdateParams (checked under SpecUpdate).             *)
(***************************************************************************)
NoFieldSet(p) == \A f \in DOMAIN p : p[f] = Nil

UpdatableScalars(k) ==
  CASE k = "webhook_endpoint" -> {"Description", "Disabled", "URL"}
    [] k = "product" ->
         {"Active", "DefaultPrice", "Description", "Name", "Shippable",
          "StatementDescriptor", "TaxCode", "UnitLabel", "URL"}
    [] k = "price" ->
         {"Active", "BillingScheme", "Currency", "LookupKey", "Nickname",
          "Product", "TaxBehavior", "TiersMode", "UnitAmount", "UnitAmountDecimal"}
    [] k = "coupon" ->
         {"Duration", "DurationInMonths", "MaxRedemptions", "Name", "RedeemBy"}

\* C2: for every resource and every updatable scalar attribute f, whenever
\* plan.f differs from state.f the Change-Set contains f, carrying the plan's
\* value (the Price and Coupon attributes included).
C2_ChangedScalarSent ==
  pc = "updateParams" =>
    \A f \in UpdatableScalars(kind) :
      ~Equal(plan[f], state[f]) =>
        /\ params[f] # Nil
        /\ plan[f].k = "value" => params[f] = Ptr(plan[f].v)

\* the optional string attributes that buildUpdateParams handles
ClearableStrings(k) ==
  CASE k = "webhook_endpoint" -> {"Description"}
    [] k = "product" ->
         {"DefaultPrice", "Description", "StatementDescriptor", "TaxCode",
          "UnitLabel", "URL"}
    [] k = "price" -> {}
    [] k = "coupon" -> {"Name"}

\* C3: when an optional string attribute (webhook description, coupon name,
\* product default_price, description, statement_descriptor, tax_code,
\* unit_label, url) is a concrete value in state and null in plan, the
\* Change-Set holds that attribute set to the empty string, not absent.
C3_ClearSentinel ==
  pc = "updateParams" =>
    \A f \in ClearableStrings(kind) :
      (state[f].k = "value" /\ IsNull(plan[f])) => params[f] = Ptr("")

C3_Witness ==
  /\ pc = "updateParams" /\ kind = "product"
  /\ state.TaxCode = Val("a") /\ IsNull(plan.TaxCode)
  /\ params.TaxCode = Ptr("")

\* C4: for webhook endpoint, product and coupon, when plan.metadata differs
\* from state.metadata the Change-Set metadata has exactly the keys of plan
\* united with the keys of state, each plan key with the plan's value and each
\* key of state only with ""; when the maps are equal there is no metadata.
C4_MetadataDiff ==
  (pc = "updateParams" /\ kind \in {"webhook_endpoint", "product", "coupon"}) =>
    LET pm == MapElements(plan.Metadata)
        sm == MapElements(state.Metadata)
    IN IF Equal(plan.Metadata, state.Metadata)
       THEN params.Metadata = Nil
       ELSE /\ GoMapKeys(params.Metadata) = DOMAIN pm \cup DOMAIN sm
            /\ \A key \in DOMAIN pm : params.Metadata.v[key] = pm[key].v
            /\ \A key \in DOMAIN sm \ DOMAIN pm : params.Metadata.v[key] = ""

C4_Witness ==
  /\ pc = "updateParams" /\ kind = "coupon"
  /\ state.Metadata = Val([key \in {"k1"} |-> Val("a")])
  /\ plan.Metadata = Val([key \in {"k2"} |-> Val("b")])
  /\ params.Metadata = Ptr([key \in {"k1", "k2"} |-> IF key = "k1" THEN "" ELSE "b"])

\* the list attributes that buildUpdateParams handles
ListAttributes(k) ==
  CASE k = "webhook_endpoint" -> {"EnabledEvents"}
    [] k = "product" -> {"Images", "MarketingFeatures"}
    [] k \in {"price", "coupon"} -> {}

\* the strings a list field of the Change-Set holds, in order ("" for nil)
SentStrings(f, field) ==
  [i \in 1..Len(field.v) |->
     LET e == IF f = "MarketingFeatures" THEN field.v[i].Name ELSE field.v[i]
     IN IF e = Nil THEN "" ELSE e.v]

\* C5: every list attribute (product images and marketing_features, webhook
\* enabled_events) is replaced wholesale: whenever the plan list differs from
\* the state list the Change-Set holds that field with the complete plan list
\* in plan order, and the field is present (and empty) when the plan list is
\* null or empty.
C5_ListReplaced ==
  pc = "updateParams" =>
    \A f \in ListAttributes(kind) :
      ~Equal(plan[f], state[f]) =>
        /\ params[f] # Nil
        /\ SentStrings(f, params[f]) =
             [i \in 1..Len(ListElements(plan[f])) |->
                ValueString(ListElements(plan[f])[i])]

\* C7: coupon buildUpdateParams, when plan.currency_options differs from
\* state.currency_options, puts into the per-currency map exactly the keys of
\* plan that state lacks, each with the plan's amount_off; keys in both and
\* keys only in state are not sent, and AmountOff and Currency are never set.
C7_CurrencyOptionsAdded ==
  (pc = "updateParams" /\ kind = "coupon") =>
    LET pm == MapElements(plan.CurrencyOptions)
        sm == MapElements(state.CurrencyOptions)
    IN /\ params.AmountOff = Nil
       /\ params.Currency = Nil
       /\ ~Equal(plan.CurrencyOptions, state.CurrencyOptions) =>
            /\ params.CurrencyOptions # Nil
            /\ DOMAIN params.CurrencyOptions.v = DOMAIN pm \ DOMAIN sm
            /\ \A c \in DOMAIN pm \ DOMAIN sm :
                 params.CurrencyOptions.v[c] = [AmountOff |-> Ptr(pm[c].AmountOff.v)]

C7_Witness ==
  /\ pc = "updateParams" /\ kind = "coupon"
  /\ state.CurrencyOptions =
       Val([c \in {"usd"} |-> [AmountOff |-> Val(1), TopLevel |-> Val(TRUE)]])
  /\ plan.CurrencyOptions =
       Val([c \in {"usd", "gbp"} |->
              [AmountOff |-> Val(2), TopLevel |-> Val(c = "gbp")]])
  /\ params.CurrencyOptions = Ptr([c \in {"gbp"} |-> [AmountOff |-> Ptr(2)]])

\* C9: product buildUpdateParams, when plan.package_dimensions differs from
\* state.package_dimensions: a null plan value gives a package-dimensions
\* object with height, length, weight and width 0, any other plan value gives
\* its four sub-fields; equal values give no package-dimensions object.
C9_PackageDimensionsDiff ==
  (pc = "updateParams" /\ kind = "product") =>
    IF Equal(plan.PackageDimensions, state.PackageDimensions)
    THEN params.PackageDimensions = Nil
    ELSE IF IsNull(plan.PackageDimensions)
    THEN params.PackageDimensions =
           Ptr([Height |-> Ptr(0), Length |-> Ptr(0), Weight |-> Ptr(0),
                Width |-> Ptr(0)])
    ELSE params.PackageDimensions =
           Ptr([Height |-> Ptr(plan.PackageDimensions.v.Height.v),
                Length |-> Ptr(plan.PackageDimensions.v.Length.v),
                Weight |-> Ptr(plan.PackageDimensions.v.Weight.v),
                Width |-> Ptr(plan.PackageDimensions.v.Width.v)])

C9_Witness ==
  /\ pc = "updateParams" /\ kind = "product"
  /\ state.PackageDimensions.k = "value" /\ IsNull(plan.PackageDimensions)
  /\ params.PackageDimensions.p = "set"
  /\ params.PackageDimensions.v.Height = Ptr(0)

\* a non-null plan object that differs from the state is sent field by field
C9_WitnessChanged ==
  /\ pc = "updateParams" /\ kind = "product"
  /\ IsNull(state.PackageDimensions) /\ plan.PackageDimensions.k = "value"
  /\ plan.PackageDimensions.v.Height = Val(2)
  /\ plan.PackageDimensions.v.Length = Val(1)
  /\ params.PackageDimensions.p = "set"
  /\ params.PackageDimensions.v.Height = Ptr(2)

(***************************************************************************)
(* buildCreateParams applied to a plan.                                    *)
(***************************************************************************)
RECURSIVE Orders(_)
\* the orders in which a range loop can visit the keys K of a Go map
Orders(K) ==
  IF K = {} THEN {<<>>}
  ELSE UNION {{<<key>> \o rest : rest \in Orders(K \ {key})} : key \in K}

\* id is computed: unknown in a create plan unless the configuration sets it
CreateIds(k) ==
  IF k \in {"product", "coupon"} THEN {Unknown, Val("id1")} ELSE {Unknown}

\* a create plan: the computed attributes nothing has set yet are unknown
CreatePlan(k, m, id) ==
  IF k = "webhook_endpoint"
  THEN [m EXCEPT !.Id = id, !.Application = Unknown, !.Secret = Unknown]
  ELSE [m EXCEPT !.Id = id]

InitCreate ==
  /\ kind \in Kinds
  /\ pc = "start"
  /\ state = NoValue
  /\ \E base \in BaseModels(kind), id \in CreateIds(kind) :
       PlanIsEdit(kind, CreatePlan(kind, base, id), 1, MaxEdits)
  /\ remote = NoValue
  /\ params = NoValue
  /\ model = NoValue
  /\ op = NoValue
  /\ diags = <<>>
  /\ calls = <<>>

WebhookEndpointBuildCreateParams ==
  /\ kind = "webhook_endpoint" /\ pc = "start"
  /\ params' = WebhookEndpointResource_buildCreateParams(plan)
  /\ pc' = "createParams"
  /\ UNCHANGED <<kind, state, plan, remote, model, op, diags, calls>>

ProductBuildCreateParams ==
  /\ kind = "product" /\ pc = "start"
  /\ params' = ProductResource_buildCreateParams(plan)
  /\ pc' = "createParams"
  /\ UNCHANGED <<kind, state, plan, remote, model, op, diags, calls>>

PriceBuildCreateParams ==
  /\ kind = "price" /\ pc = "start"
  /\ params' = PriceResource_buildCreateParams(plan)
  /\ pc' = "createParams"
  /\ UNCHANGED <<kind, state, plan, remote, model, op, diags, calls>>

CouponBuildCreateParams ==
  /\ kind = "coupon" /\ pc = "start"
  /\ \E order \in Orders(DOMAIN MapElements(plan.CurrencyOptions)) :
       params' = CouponResource_buildCreateParams(plan, order)
  /\ pc' = "createParams"
  /\ UNCHANGED <<kind, state, plan, remote, model, op, diags, calls>>

NextCreate ==
  \/ WebhookEndpointBuildCreateParams
  \/ ProductBuildCreateParams
  \/ PriceBuildCreateParams
  \/ CouponBuildCreateParams

SpecCreate == InitCreate /\ [][NextCreate]_vars

\* C6: coupon buildCreateParams routes a currency-options entry with
\* top_level = true to the top-level fields (AmountOff is the entry's
\* amount_off, Currency the entry's key) and keeps its key out of the
\* per-currency map; an entry with top_level = false goes into the
\* per-currency map under its key and never sets AmountOff or Currency.
C6_TopLevelRouting ==
  (pc = "createParams" /\ kind = "coupon" /\ plan.CurrencyOptions.k = "value") =>
    LET co == plan.CurrencyOptions.v
    IN /\ \A c \in DOMAIN co :
            IF co[c].TopLevel.v
            THEN /\ params.AmountOff = Ptr(co[c].AmountOff.v)
                 /\ params.Currency = Ptr(c)
                 /\ c \notin DOMAIN params.CurrencyOptions.v
            ELSE /\ c \in DOMAIN params.CurrencyOptions.v
                 /\ params.CurrencyOptions.v[c] = [AmountOff |-> Ptr(co[c].AmountOff.v)]
       /\ (\A c \in DOMAIN co : ~co[c].TopLevel.v) =>
            (params.AmountOff = Nil /\ params.Currency = Nil)

(***************************************************************************)
(* populateModel applied to a stored model and a remote object.            *)
(***************************************************************************)
RemoteStrings == Strings \cup {""}

RemoteNumbers == {0, 1, 2}

RECURSIVE SeqsUpTo(_, _)
\* the sequences of at most n elements of S
SeqsUpTo(S, n) ==
  IF n = 0 THEN {<<>>}
  ELSE LET shorter == SeqsUpTo(S, n - 1)
       IN shorter \cup UNION {{Append(q, e) : e \in S} : q \in shorter}

\* a []string of the remote object: nil, empty or filled
RemoteSlices == {Nil} \cup {Ptr(q) : q \in SeqsUpTo(Strings, MaxLen)}

\* a map[string]string of the remote object: nil, empty or filled
RemoteMetadata ==
  {Nil} \cup {Ptr(f) : f \in UNION {[K -> RemoteStrings] : K \in SUBSET MetaKeys}}

\* an expandable sub-object of the remote object, absent or with its id
RemoteRefs == {Nil} \cup {Ptr([ID |-> s]) : s \in Strings}

RemoteMarketingFeatures ==
  {Nil} \cup {Ptr([i \in 1..Len(q) |-> [Name |-> q[i]]]) : q \in SeqsUpTo(Strings, MaxLen)}

RemotePackageDimensions ==
  {Nil} \cup
  {Ptr([Height |-> h, Length |-> l, Weight |-> w, Width |-> x]) :
     h \in RemoteNumbers, l \in RemoteNumbers, w \in RemoteNumbers,
     x \in RemoteNumbers}

RemoteAppliesTo == {Nil} \cup {Ptr([Products |-> q]) : q \in RemoteSlices}

RemoteCurrencyOptions ==
  {Nil} \cup
  {Ptr(f) : f \in UNION {[K -> {[AmountOff |-> n] : n \in RemoteNumbers}] :
                          K \in SUBSET Currencies}}

\* the fields of the remote object of resource k that populateModel reads
RemoteFields(k) ==
  CASE k = "webhook_endpoint" ->
         <<"APIVersion", "Application", "Description", "EnabledEvents", "Metadata",
           "Status", "URL">>
    [] k = "product" ->
         <<"Active", "DefaultPrice", "Description", "Images", "MarketingFeatures",
           "Metadata", "Name", "PackageDimensions", "Shippable",
           "StatementDescriptor", "TaxCode", "UnitLabel", "URL">>
    [] k = "price" ->
         <<"Active", "BillingScheme", "Currency", "LookupKey", "Nickname", "Product",
           "TaxBehavior", "TiersMode", "UnitAmount", "UnitAmountDecimal">>
    [] k = "coupon" ->
         <<"AppliesTo", "Currency", "CurrencyOptions", "Duration", "DurationInMonths",
           "MaxRedemptions", "Metadata", "Name", "PercentOff", "RedeemBy">>

\* the values field f of the remote object of resource k can hold
RemoteDom(k, f) ==
  CASE f \in {"Active", "Shippable"} -> BOOLEAN
    [] f \in {"DefaultPrice", "TaxCode"} -> RemoteRefs
    [] f \in {"EnabledEvents", "Images"} -> RemoteSlices
    [] f = "MarketingFeatures" -> RemoteMarketingFeatures
    [] f = "Metadata" -> RemoteMetadata
    [] f = "PackageDimensions" -> RemotePackageDimensions
    [] f = "Status" -> {"enabled", "disabled"}
    [] f = "BillingScheme" -> {"", "per_unit", "tiered"}
    [] f = "TaxBehavior" -> {"", "unspecified", "inclusive"}
    [] f = "Product" -> {Ptr([ID |-> s]) : s \in Strings}
    [] f = "AppliesTo" -> RemoteAppliesTo
    [] f = "Currency" -> IF k = "coupon" THEN Currencies \cup {""} ELSE RemoteStrings
    [] f = "CurrencyOptions" -> RemoteCurrencyOptions
    [] f = "Duration" -> {"", "once", "forever"}
    [] f \in {"DurationInMonths", "MaxRedemptions", "PercentOff", "RedeemBy",
              "UnitAmount", "UnitAmountDecimal"} -> RemoteNumbers
    [] OTHER -> RemoteStrings

\* a remote object with every field at its zero value
ZeroRemote(k) ==
  CASE k = "webhook_endpoint" ->
         [ID |-> "id1", APIVersion |-> "", Application |-> "", Description |-> "",
          EnabledEvents |-> Nil, Metadata |-> Nil, Secret |-> "",
          Status |-> "enabled", URL |-> ""]
    [] k = "product" ->
         [ID |-> "id1", Active |-> FALSE, DefaultPrice |-> Nil, Description |-> "",
          Images |-> Nil, MarketingFeatures |-> Nil, Metadata |-> Nil, Name |-> "",
          PackageDimensions |-> Nil, Shippable |-> FALSE,
          StatementDescriptor |-> "", TaxCode |-> Nil, UnitLabel |-> "", URL |-> ""]
    [] k = "price" ->
         [ID |-> "id1", Active |-> FALSE, BillingScheme |-> "", Currency |-> "",
          LookupKey |-> "", Nickname |-> "", Product |-> Ptr([ID |-> "a"]),
          TaxBehavior |-> "", TiersMode |-> "", UnitAmount |-> 0,
          UnitAmountDecimal |-> 0]
    [] k = "coupon" ->
         [ID |-> "id1", AppliesTo |-> Nil, Currency |-> "", CurrencyOptions |-> Nil,
          Duration |-> "", DurationInMonths |-> 0, MaxRedemptions |-> 0,
          Metadata |-> Nil, Name |-> "", PercentOff |-> 0, RedeemBy |-> 0]

\* a remote object with every field set
FullRemote(k) ==
  CASE k = "webhook_endpoint" ->
         [ID |-> "id1", APIVersion |-> "a", Application |-> "a", Description |-> "a",
          EnabledEvents |-> Ptr(<<"a", "b">>),
          Metadata |-> Ptr([key \in MetaKeys |-> "a"]), Secret |-> "",
          Status |-> "disabled", URL |-> "b"]
    [] k = "product" ->
         [ID |-> "id1", Active |-> TRUE, DefaultPrice |-> Ptr([ID |-> "a"]),
          Description |-> "a", Images |-> Ptr(<<"a", "b">>),
          MarketingFeatures |-> Ptr(<<[Name |-> "a"], [Name |-> "b"]>>),
          Metadata |-> Ptr([key \in MetaKeys |-> "a"]), Name |-> "b",
          PackageDimensions |->
            Ptr([Height |-> 1, Length |-> 2, Weight |-> 1, Width |-> 2]),
          Shippable |-> TRUE, StatementDescriptor |-> "a",
          TaxCode |-> Ptr([ID |-> "a"]), UnitLabel |-> "a", URL |-> "a"]
    [] k = "price" ->
         [ID |-> "id1", Active |-> TRUE, BillingScheme |-> "tiered", Currency |-> "b",
          LookupKey |-> "a", Nickname |-> "a", Product |-> Ptr([ID |-> "b"]),
          TaxBehavior |-> "inclusive", TiersMode |-> "a", UnitAmount |-> 1,
          UnitAmountDecimal |-> 1]
    [] k = "coupon" ->
         [ID |-> "id1", AppliesTo |-> Ptr([Products |-> Ptr(<<"a", "b">>)]),
          Currency |-> "usd",
          CurrencyOptions |-> Ptr([c \in {"gbp"} |-> [AmountOff |-> 1]]),
          Duration |-> "forever", DurationInMonths |-> 1, MaxRedemptions |-> 1,
          Metadata |-> Ptr([key \in MetaKeys |-> "a"]), Name |-> "a",
          PercentOff |-> 1, RedeemBy |-> 1]

RECURSIVE RemoteIsEdit(_, _, _, _)
\* remote is got from r by changing at most n of the fields i.. of RemoteFields(k)
RemoteIsEdit(k, r, i, n) ==
  \/ remote = r
  \/ /\ n > 0
     /\ \E j \in i..Len(RemoteFields(k)) :
          \E x \in RemoteDom(k, RemoteFields(k)[j]) \ {r[RemoteFields(k)[j]]} :
            RemoteIsEdit(k, [r EXCEPT ![RemoteFields(k)[j]] = x], j + 1, n - 1)

\* the model ImportState hands to populateModel: only the id is set
ImportedModel(k) == [a \in DOMAIN BareModel(k) |-> IF a = "Id" THEN Val("id1") ELSE Null]

\* the models populateModel starts from
PriorModels(k) == BaseModels(k) \cup {ImportedModel(k)}

InitPopulate ==
  /\ kind \in Kinds
  /\ pc = "start"
  /\ state \in PriorModels(kind)
  /\ model = state
  /\ \E r \in {ZeroRemote(kind), FullRemote(kind)} : RemoteIsEdit(kind, r, 1, MaxEdits)
  /\ plan = NoValue
  /\ params = NoValue
  /\ op = NoValue
  /\ diags = <<>>
  /\ calls = <<>>

WebhookEndpointPopulateModel ==
  /\ kind = "webhook_endpoint" /\ pc = "start"
  /\ model' = WebhookEndpointResource_populateModel(model, remote)
  /\ pc' = "populated"
  /\ UNCHANGED <<kind, state, plan, remote, params, op, diags, calls>>

ProductPopulateModel ==
  /\ kind = "product" /\ pc = "start"
  /\ model' = ProductResource_populateModel(model, remote)
  /\ pc' = "populated"
  /\ UNCHANGED <<kind, state, plan, remote, params, op, diags, calls>>

PricePopulateModel ==
  /\ kind = "price" /\ pc = "start"
  /\ model' = PriceResource_populateModel(model, remote)
  /\ pc' = "populated"
  /\ UNCHANGED <<kind, state, plan, remote, params, op, diags, calls>>

CouponPopulateModel ==
  /\ kind = "coupon" /\ pc = "start"
  /\ model' = CouponResource_populateModel(model, remote)
  /\ pc' = "populated"
  /\ UNCHANGED <<kind, state, plan, remote, params, op, diags, calls>>

NextPopulate ==
  \/ WebhookEndpointPopulateModel
  \/ ProductPopulateModel
  \/ PricePopulateModel
  \/ CouponPopulateModel

SpecPopulate == InitPopulate /\ [][NextPopulate]_vars

\* C8: the product's populated package_dimensions is a concrete object holding
\* the four remote numbers exactly when the remote struct is present and all
\* four of its fields are non-zero; in every other case it is Null.
C8_PackageDimensionsPopulated ==
  (pc = "populated" /\ kind = "product") =>
    LET pd == remote.PackageDimensions
    IN IF pd # Nil /\ \A d \in {"Height", "Length", "Weight", "Width"} : pd.v[d] # 0
       THEN model.PackageDimensions =
              Val([d \in {"Height", "Length", "Weight", "Width"} |-> Val(pd.v[d])])
       ELSE model.PackageDimensions = Null

\* a product that had package dimensions is read back with a remote struct in
\* which the height is set and another dimension is zero, and ends up Null
C8_Witness ==
  /\ pc = "populated" /\ kind = "product"
  /\ state.PackageDimensions # Null
  /\ remote.PackageDimensions # Nil
  /\ remote.PackageDimensions.v.Height # 0
  /\ remote.PackageDimensions.v.Width = 0
  /\ model.PackageDimensions = Null

\* a remote struct with four non-zero dimensions gives a concrete object
C8_WitnessConcrete ==
  /\ pc = "populated" /\ kind = "product"
  /\ state.PackageDimensions = Null
  /\ remote.PackageDimensions =
       Ptr([Height |-> 1, Length |-> 2, Weight |-> 1, Width |-> 2])
  /\ model.PackageDimensions =
       Val([Height |-> Val(1), Length |-> Val(2), Weight |-> Val(1),
            Width |-> Val(2)])

\* the model attributes populateModel of resource k fills from a remote field of
\* the same name, the booleans left out
PopulatedAttributes(k) ==
  CASE k = "webhook_endpoint" ->
         {"APIVersion", "Application", "Description", "EnabledEvents", "Metadata",
          "URL"}
    [] k = "product" ->
         {"DefaultPrice", "Description", "Images", "MarketingFeatures", "Metadata",
          "Name", "PackageDimensions", "StatementDescriptor", "TaxCode",
          "UnitLabel", "URL"}
    [] k = "price" ->
         {"BillingScheme", "Currency", "LookupKey", "Nickname", "TaxBehavior",
          "TiersMode", "UnitAmount", "UnitAmountDecimal"}
    [] k = "coupon" ->
         {"AppliesTo", "CurrencyOptions", "Duration", "DurationInMonths",
          "MaxRedemptions", "Metadata", "Name", "PercentOff", "RedeemBy"}

\* the remote field behind attribute a holds its zero value: an empty string, a
\* zero number, a nil or empty collection, an absent or all-zero struct
RemoteIsZero(a) ==
  LET x == remote[a]
  IN CASE a \in {"EnabledEvents", "Images", "MarketingFeatures"} ->
            x = Nil \/ x.v = <<>>
       [] a \in {"Metadata", "CurrencyOptions"} -> GoMapKeys(x) = {}
       [] a \in {"DefaultPrice", "TaxCode"} -> x = Nil
       [] a = "PackageDimensions" ->
            x = Nil \/ x.v = [Height |-> 0, Length |-> 0, Weight |-> 0, Width |-> 0]
       [] a = "AppliesTo" -> x = Nil \/ x.v.Products = Nil \/ x.v.Products.v = <<>>
       [] a \in {"DurationInMonths", "MaxRedemptions", "PercentOff", "RedeemBy",
                 "UnitAmount", "UnitAmountDecimal"} -> x = 0
       [] OTHER -> x = ""

NullNormalised(k) ==
  CASE k = "webhook_endpoint" -> {"APIVersion", "Application", "Description", "Metadata"}
    [] k = "product" ->
         {"Description", "Images", "Metadata", "PackageDimensions",
          "StatementDescriptor", "UnitLabel", "URL"}
    [] k = "price" -> {}
    [] k = "coupon" -> PopulatedAttributes("coupon")

\* the attributes populateModel of resource k always sets to a concrete value
AlwaysConcrete(k) ==
  CASE k = "webhook_endpoint" -> {"Disabled", "URL"}
    [] k = "product" -> {"Active", "Shippable", "Name"}
    [] k = "price" -> {"Active"} \cup PopulatedAttributes("price")
    [] k = "coupon" -> {}

\* the attributes populateModel of resource k leaves alone when the remote
\* object holds nothing for them
KeptWhenAbsent(k) ==
  IF k = "product" THEN {"DefaultPrice", "TaxCode", "MarketingFeatures"} ELSE {}

HelperNumbers == -3..3

HelperLists == {Null, Unknown} \cup {Val(q) : q \in SeqsUpTo(ListElems, MaxLen)}

HelperMaps ==
  {Null, Unknown} \cup
  {Val(f) : f \in UNION {[K -> MetaVals \cup {Null}] : K \in SUBSET MetaKeys}}

\* the values a helper can be called with
HelperInputs(helper) ==
  CASE helper = "StringNullIfEmpty" -> RemoteStrings
    [] helper \in {"Int64NullIfEmpty", "Float64NullIfEmpty"} -> HelperNumbers
    [] helper = "ListValueNullIfEmpty" -> HelperLists
    [] helper = "MapValueNullIfEmpty" -> HelperMaps

Helpers ==
  {"StringNullIfEmpty", "Int64NullIfEmpty", "Float64NullIfEmpty",
   "ListValueNullIfEmpty", "MapValueNullIfEmpty"}

\* kind names the helper, params is its input and model its result
InitHelpers ==
  /\ kind \in Helpers
  /\ pc = "start"
  /\ params \in HelperInputs(kind)
  /\ state = NoValue
  /\ plan = NoValue
  /\ remote = NoValue
  /\ model = NoValue
  /\ op = NoValue
  /\ diags = <<>>
  /\ calls = <<>>

CallStringNullIfEmpty ==
  /\ kind = "StringNullIfEmpty" /\ pc = "start"
  /\ model' = StringNullIfEmpty(params)
  /\ pc' = "returned"
  /\ UNCHANGED <<kind, state, plan, remote, params, op, diags, calls>>

CallInt64NullIfEmpty ==
  /\ kind = "Int64NullIfEmpty" /\ pc = "start"
  /\ model' = Int64NullIfEmpty(params)
  /\ pc' = "returned"
  /\ UNCHANGED <<kind, state, plan, remote, params, op, diags, calls>>

CallFloat64NullIfEmpty ==
  /\ kind = "Float64NullIfEmpty" /\ pc = "start"
  /\ model' = Float64NullIfEmpty(params)
  /\ pc' = "returned"
  /\ UNCHANGED <<kind, state, plan, remote, params, op, diags, calls>>

CallListValueNullIfEmpty ==
  /\ kind = "ListValueNullIfEmpty" /\ pc = "start"
  /\ model' = ListValueNullIfEmpty(params)
  /\ pc' = "returned"
  /\ UNCHANGED <<kind, state, plan, remote, params, op, diags, calls>>

CallMapValueNullIfEmpty ==
  /\ kind = "MapValueNullIfEmpty" /\ pc = "start"
  /\ model' = MapValueNullIfEmpty(params)
  /\ pc' = "returned"
  /\ UNCHANGED <<kind, state, plan, remote, params, op, diags, calls>>

NextHelpers ==
  \/ CallStringNullIfEmpty
  \/ CallInt64NullIfEmpty
  \/ CallFloat64NullIfEmpty
  \/ CallListValueNullIfEmpty
  \/ CallMapValueNullIfEmpty

SpecHelpers == InitHelpers /\ [][NextHelpers]_vars

\* C11: StringNullIfEmpty, Int64NullIfEmpty and Float64NullIfEmpty return Null
\* exactly when the input is the zero value of its type ("" or 0), and
\* otherwise the concrete value equal to the input.
C11_ScalarNullIfEmpty ==
  (pc = "returned"
   /\ kind \in {"StringNullIfEmpty", "Int64NullIfEmpty", "Float64NullIfEmpty"}) =>
    LET zero == IF kind = "StringNullIfEmpty" THEN params = "" ELSE params = 0
    IN /\ (model = Null) <=> zero
       /\ ~zero => model = Val(params)

\* Float64NullIfEmpty has returned Null for the input 0
C11_Witness ==
  pc = "returned" /\ kind = "Float64NullIfEmpty" /\ params = 0 /\ model = Null

\* C12: ListValueNullIfEmpty and MapValueNullIfEmpty return Null when the
\* input is Null or has no elements, and the input itself, unchanged, when it
\* has at least one element.
C12_CollectionNullIfEmpty ==
  (pc = "returned" /\ kind \in {"ListValueNullIfEmpty", "MapValueNullIfEmpty"}) =>
    LET size == IF kind = "ListValueNullIfEmpty"
                THEN Len(ListElements(params))
                ELSE Cardinality(DOMAIN MapElements(params))
    IN /\ (IsNull(params) \/ size = 0) => model = Null
       /\ size >= 1 => model = params

\* ListValueNullIfEmpty has returned Null for a concrete list without elements
C12_Witness ==
  pc = "returned" /\ kind = "ListValueNullIfEmpty" /\ params = Val(<<>>) /\ model = Null

\* C13: the coupon's populateModel gives every remote currency-option entry a
\* concrete top_level that is true iff the entry's key is the coupon's own
\* Currency, so at most one entry of the populated model has top_level = true.
C13_TopLevelMarksCurrency ==
  (pc = "populated" /\ kind = "coupon") =>
    LET keys == GoMapKeys(remote.CurrencyOptions)
        entries == MapElements(model.CurrencyOptions)
    IN /\ DOMAIN entries = keys
       /\ \A c \in keys : entries[c].TopLevel = Val(remote.Currency = c)
       /\ Cardinality({c \in keys : entries[c].TopLevel = Val(TRUE)}) <= 1

\* a remote coupon in usd with options for usd and gbp: usd is marked, gbp is not
C13_Witness ==
  /\ pc = "populated" /\ kind = "coupon"
  /\ remote.Currency = "usd"
  /\ GoMapKeys(remote.CurrencyOptions) = {"usd", "gbp"}
  /\ model.CurrencyOptions.v["usd"].TopLevel = Val(TRUE)
  /\ model.CurrencyOptions.v["gbp"].TopLevel = Val(FALSE)

(***************************************************************************)
(* The handlers Create, Read, Update, Delete and ImportState of the four   *)
(* resources.  A handler runs as one step: it decodes the request, makes   *)
(* at most one call to the remote API, populates the model and saves it.   *)
(* state is the resource's stored Terraform state (NoValue when there is   *)
(* none); plan, params, remote, model and diags are the plan, the request  *)
(* parameters, the remote response, the populated model and the response   *)
(* diagnostics of the last handler run; calls is the log of remote calls.  *)
(***************************************************************************)
\* number of handler runs in one behaviour
MaxOps == 3

Diagnostic(severity, summary, detail) ==
  [severity |-> severity, summary |-> summary, detail |-> detail]

\* resp.Diagnostics.HasError()
HasError(d) == \E i \in 1..Len(d) : d[i].severity = "error"

\* the words of the message "Unable to <verb> <noun>, got error: %s" a handler
\* formats for a failed remote call
ClientErrorDetail(k, name) ==
  [verb |-> CASE name = "Create" -> "create"
              [] name = "Read" -> "read"
              [] name = "Update" -> "create"
              [] name = "Delete" -> "delete"
              [] name = "ImportState" -> "import",
   noun |-> IF k = "price" THEN "price" ELSE "webhook endpoint"]

\* resp.Diagnostics.AddError("Client Error", fmt.Sprintf("Unable to ...", err))
ClientError(k, name) == Diagnostic("error", "Client Error", ClientErrorDetail(k, name))

\* a faulty Price Delete that only warns
PriceDeleteError_Warning ==
  Diagnostic("warning", "Client Error",
             "Stripe API does not support deleting prices. Please archive the price instead.")

\* the diagnostic Price Delete always adds
PriceDeleteError ==
  Diagnostic("error", "Client Error",
             "Stripe API does not support deleting prices. Please archive the price instead.")

\* the diagnostics req.Plan.Get, req.State.Get or resp.State.Set report on failure
DecodeError == Diagnostic("error", "Value Conversion Error", "get")

SetError == Diagnostic("error", "Value Conversion Error", "set")

\* the error a typed conversion inside populateModel reports
ConversionError == Diagnostic("error", "Conversion Error", "populate")

\* a model that leaves the id as it was
AssignId_Skipped(m, id) == m

\* plan.Id = types.StringValue(product.ID), state.Id = types.StringValue(req.ID)
AssignId(m, id) == [m EXCEPT !.Id = Val(id)]

\* a handler that assigns the id and forgets the secret
AssignCreated_NoSecret(k, m, r) == AssignId(m, r.ID)

\* the assignments Create makes from the create response before populateModel
AssignCreated(k, m, r) ==
  IF k = "webhook_endpoint"
  THEN [AssignId(m, r.ID) EXCEPT !.Secret = Val(r.Secret)]
  ELSE AssignId(m, r.ID)

\* the model ImportState starts from: a zero-valued struct
ZeroModel(k) == [a \in DOMAIN BareModel(k) |-> Null]

buildCreateParamsOf(k, pl, order) ==
  CASE k = "webhook_endpoint" -> WebhookEndpointResource_buildCreateParams(pl)
    [] k = "product" -> ProductResource_buildCreateParams(pl)
    [] k = "price" -> PriceResource_buildCreateParams(pl)
    [] k = "coupon" -> CouponResource_buildCreateParams(pl, order)

buildUpdateParamsOf(k, st, pl) ==
  CASE k = "webhook_endpoint" -> WebhookEndpointResource_buildUpdateParams(st, pl)
    [] k = "product" -> ProductResource_buildUpdateParams(st, pl)
    [] k = "price" -> PriceResource_buildUpdateParams(st, pl)
    [] k = "coupon" -> CouponResource_buildUpdateParams(st, pl)

\* populateModel when its first typed conversion reports an error: the webhook
\* endpoint's returns at once, the product's and the coupon's go on with the
\* unknown list the failed conversion left
populateModelConversionError(k, m, r) ==
  CASE k = "webhook_endpoint" ->
         [m EXCEPT !.APIVersion = StringNullIfEmpty(r.APIVersion),
                   !.Application = StringNullIfEmpty(r.Application),
                   !.Description = StringNullIfEmpty(r.Description)]
    [] k = "product" -> ProductResource_populateModel(m, [r EXCEPT !.Images = Nil])
    [] k = "coupon" -> CouponResource_populateModel(m, [r EXCEPT !.AppliesTo = Nil])

populateModelOf(k, m, r, converted) ==
  IF ~converted THEN populateModelConversionError(k, m, r)
  ELSE CASE k = "webhook_endpoint" -> WebhookEndpointResource_populateModel(m, r)
         [] k = "product" -> ProductResource_populateModel(m, r)
         [] k = "price" -> PriceResource_populateModel(m, r)
         [] k = "coupon" -> CouponResource_populateModel(m, r)

\* respDiag is resp.Diagnostics passed by value (a copy of the slice header):
\* what populateModel appends to it never reaches the handler's resp.Diagnostics
DiagnosticsAfterPopulate(respDiagnostics, converted) == respDiagnostics

\* a coupon handler that asks for no expansion
Expand_None(k) == {}

\* params.AddExpand("currency_options"), which only the coupon handlers call
Expand(k) == IF k = "coupon" THEN {"currency_options"} ELSE {}

RemoteIds == {"id1", "id2"}

RemoteSecrets == {"s1", "s2"}

\* the objects a successful remote call can return: a created object has an id
\* of the remote's choosing, a fetched or updated one the id it was asked for
Responses(k, key) ==
  {IF k = "webhook_endpoint" THEN [r EXCEPT !.ID = id, !.Secret = secret]
   ELSE [r EXCEPT !.ID = id] :
     r \in {ZeroRemote(k), FullRemote(k)},
     id \in IF key = "" THEN RemoteIds ELSE {key},
     secret \in RemoteSecrets}

\* whether the typed conversions of populateModel succeed; the price's
\* populateModel has none
Conversions(k) == IF k = "price" THEN {TRUE} ELSE BOOLEAN

\* the orders in which buildCreateParams can visit the plan's currency options
IterationOrders(k, pl) ==
  IF k = "coupon" THEN Orders(DOMAIN MapElements(pl.CurrencyOptions)) ELSE {<<>>}

\* an update plan: the configuration's attributes, and the state's value for the
\* computed ones (id, application and secret carry UseStateForUnknown)
UpdatePlan(k, st, base) ==
  [a \in DOMAIN st |->
     IF \E i \in 1..Len(Configurable(k)) : Configurable(k)[i] = a
     THEN base[a] ELSE st[a]]

\* a call to the remote API as the log keeps it
Call(method, key, k, failed) ==
  [method |-> method, key |-> key, expand |-> Expand(k), error |-> failed]

NoOp ==
  [name |-> "none", n |-> 0, called |-> FALSE, clientError |-> FALSE,
   populated |-> FALSE, converted |-> TRUE, saved |-> FALSE]

InitLifecycle ==
  /\ kind \in Kinds
  /\ pc = "idle"
  /\ state = NoValue
  /\ plan = NoValue
  /\ remote = NoValue
  /\ params = NoValue
  /\ model = NoValue
  /\ op = NoOp
  /\ diags = <<>>
  /\ calls = <<>>

\* the handler returns before it has called the remote API
ReturnEarly(name, pl, d) ==
  /\ op' = [NoOp EXCEPT !.name = name, !.n = op.n + 1]
  /\ plan' = pl
  /\ params' = NoValue
  /\ remote' = NoValue
  /\ model' = NoValue
  /\ diags' = d
  /\ UNCHANGED <<kind, pc, state, calls>>

\* a faulty handler that saves the plan although the remote call failed
ReturnClientError_Saves(name, pl, pr, call) ==
  /\ op' = [NoOp EXCEPT !.name = name, !.n = op.n + 1, !.called = TRUE,
                        !.clientError = TRUE, !.saved = TRUE]
  /\ plan' = pl
  /\ params' = pr
  /\ remote' = NoValue
  /\ model' = NoValue
  /\ diags' = <<ClientError(kind, name)>>
  /\ calls' = Append(calls, call)
  /\ state' = IF pl # NoValue THEN pl ELSE state
  /\ UNCHANGED <<kind, pc>>

\* a faulty handler that calls the remote API again after an error
ReturnClientError_Retries(name, pl, pr, call) ==
  /\ op' = [NoOp EXCEPT !.name = name, !.n = op.n + 1, !.called = TRUE,
                        !.clientError = TRUE]
  /\ plan' = pl
  /\ params' = pr
  /\ remote' = NoValue
  /\ model' = NoValue
  /\ diags' = <<ClientError(kind, name)>>
  /\ calls' = calls \o <<call, call>>
  /\ UNCHANGED <<kind, pc, state>>

\* the remote call returned an error: the handler adds its diagnostic and returns
ReturnClientError(name, pl, pr, call) ==
  /\ op' = [NoOp EXCEPT !.name = name, !.n = op.n + 1, !.called = TRUE,
                        !.clientError = TRUE]
  /\ plan' = pl
  /\ params' = pr
  /\ remote' = NoValue
  /\ model' = NoValue
  /\ diags' = <<ClientError(kind, name)>>
  /\ calls' = Append(calls, call)
  /\ UNCHANGED <<kind, pc, state>>

\* the tail of Create, Read, Update and ImportState after a successful remote
\* call: populateModel on m, then resp.State.Set; only the product's handlers
\* look at resp.Diagnostics.HasError() in between
PopulateAndSave(name, pl, pr, call, r, m) ==
  \E converted \in Conversions(kind), set \in BOOLEAN :
    LET populated == populateModelOf(kind, m, r, converted)
        d == DiagnosticsAfterPopulate(<<>>, converted)
        stop == kind = "product" /\ HasError(d)
    IN /\ op' = [NoOp EXCEPT !.name = name, !.n = op.n + 1, !.called = TRUE,
                             !.populated = TRUE, !.converted = converted,
                             !.saved = ~stop /\ set]
       /\ plan' = pl
       /\ params' = pr
       /\ remote' = r
       /\ model' = populated
       /\ diags' = IF stop \/ set THEN d ELSE Append(d, SetError)
       /\ state' = IF ~stop /\ set THEN populated ELSE state
       /\ calls' = Append(calls, call)
       /\ UNCHANGED <<kind, pc>>

Create ==
  /\ pc = "idle" /\ op.n < MaxOps /\ state = NoValue
  /\ \E base \in BaseModels(kind), id \in CreateIds(kind) :
       LET pl == CreatePlan(kind, base, id)
       IN \/ ReturnEarly("Create", NoValue, <<DecodeError>>)
          \/ \E order \in IterationOrders(kind, pl) :
               LET pr == buildCreateParamsOf(kind, pl, order)
               IN \/ ReturnClientError("Create", pl, pr,
                                       Call("New", "", kind, TRUE))
                  \/ \E r \in Responses(kind, "") :
                       PopulateAndSave("Create", pl, pr,
                                       Call("New", "", kind, FALSE), r,
                                       AssignCreated(kind, pl, r))

Read ==
  /\ pc = "idle" /\ op.n < MaxOps /\ state # NoValue
  /\ \/ ReturnEarly("Read", NoValue, <<DecodeError>>)
     \/ ReturnClientError("Read", NoValue, NoValue,
                          Call("Get", ValueString(state.Id), kind, TRUE))
     \/ \E r \in Responses(kind, ValueString(state.Id)) :
          PopulateAndSave("Read", NoValue, NoValue,
                          Call("Get", ValueString(state.Id), kind, FALSE), r, state)

Update ==
  /\ pc = "idle" /\ op.n < MaxOps /\ state # NoValue
  /\ \E base \in BaseModels(kind) :
       LET pl == UpdatePlan(kind, state, base)
           pr == buildUpdateParamsOf(kind, state, pl)
       IN \/ ReturnEarly("Update", NoValue, <<DecodeError>>)
          \/ ReturnClientError("Update", pl, pr,
                               Call("Update", ValueString(pl.Id), kind, TRUE))
          \/ \E r \in Responses(kind, ValueString(pl.Id)) :
               PopulateAndSave("Update", pl, pr,
                               Call("Update", ValueString(pl.Id), kind, FALSE), r, pl)

\* Delete of the price never reaches the remote API; the others call Del with
\* nil parameters; the framework drops the state when Delete returns without
\* an error
Delete ==
  /\ pc = "idle" /\ op.n < MaxOps /\ state # NoValue
  /\ \/ ReturnEarly("Delete", NoValue, <<DecodeError>>)
     \/ /\ kind = "price"
        /\ ReturnEarly("Delete", NoValue, <<PriceDeleteError>>)
     \/ /\ kind # "price"
        /\ ReturnClientError("Delete", NoValue, NoValue,
                             [Call("Del", ValueString(state.Id), kind, TRUE)
                                EXCEPT !.expand = {}])
     \/ /\ kind # "price"
        /\ op' = [NoOp EXCEPT !.name = "Delete", !.n = op.n + 1, !.called = TRUE]
        /\ calls' = Append(calls, [Call("Del", ValueString(state.Id), kind, FALSE)
                                     EXCEPT !.expand = {}])
        /\ state' = NoValue
        /\ plan' = NoValue /\ params' = NoValue /\ remote' = NoValue
        /\ model' = NoValue /\ diags' = <<>>
        /\ UNCHANGED <<kind, pc>>

\* a faulty import that writes the state without fetching the object
ImportState_NoGet ==
  /\ pc = "idle" /\ op.n < MaxOps /\ state = NoValue
  /\ \E id \in RemoteIds :
       /\ op' = [NoOp EXCEPT !.name = "ImportState", !.n = op.n + 1,
                             !.saved = TRUE]
       /\ state' = AssignId(ZeroModel(kind), id)
       /\ model' = state'
       /\ plan' = NoValue /\ params' = NoValue /\ remote' = NoValue
       /\ diags' = <<>>
       /\ UNCHANGED <<kind, pc, calls>>

ImportState ==
  /\ pc = "idle" /\ op.n < MaxOps /\ state = NoValue
  /\ \E id \in RemoteIds :
       \/ ReturnClientError("ImportState", NoValue, NoValue,
                            Call("Get", id, kind, TRUE))
       \/ \E r \in Responses(kind, id) :
            PopulateAndSave("ImportState", NoValue, NoValue,
                            Call("Get", id, kind, FALSE), r,
                            AssignId(ZeroModel(kind), id))

NextLifecycle ==
  \/ Create
  \/ Read
  \/ Update
  \/ Delete
  \/ ImportState

SpecLifecycle == InitLifecycle /\ [][NextLifecycle]_vars

\* what C14 asks of one handler run
C14_Step ==
  /\ state' # NoValue => state'.Id.k = "value"
  /\ op'.saved =>
       CASE op'.name = "Create" -> state'.Id = Val(remote'.ID)
         [] op'.name = "Read" -> state'.Id = state.Id
         [] op'.name = "ImportState" -> state'.Id = Val(calls'[Len(calls')].key)
         [] OTHER -> TRUE
  /\ (op'.name \in {"Read", "Update", "Delete"} /\ op'.called) =>
       /\ Len(calls') = Len(calls) + 1
       /\ calls'[Len(calls')].key = state.Id.v

\* C14: for every resource, the model a successful Create, Read or Import
\* writes to state has a concrete Id (the remote object's id on Create, the
\* prior state's Id on Read, the given identifier on Import), and every later
\* Read, Update and Delete addresses the remote object by that Id.
C14_IdIsTheKey == [][C14_Step]_vars

\* a resource created with the remote id "id2" has been read back with that key
C14_Witness ==
  /\ Len(calls) = 2
  /\ calls[1].method = "New" /\ ~calls[1].error
  /\ calls[2] = Call("Get", "id2", kind, FALSE)
  /\ op.name = "Read" /\ op.saved
  /\ state.Id = Val("id2")

\* what C15 asks of one handler run of the webhook endpoint
C15_Step ==
  kind = "webhook_endpoint" =>
    /\ (op'.name = "Create" /\ op'.saved) =>
         /\ state'.Id = Val(remote'.ID)
         /\ state'.Secret = Val(remote'.Secret)
    /\ (op'.name \in {"Read", "Update"} /\ op'.populated) =>
         /\ model'.Secret = state.Secret
         /\ state'.Secret = state.Secret

\* C15: the webhook endpoint's Create assigns Id and Secret from the create
\* response, and no later Read or Update (nor their populateModel) assigns
\* Secret, so the Secret in state stays the one Create returned.
C15_SecretWriteOnce == [][C15_Step]_vars

\* an endpoint created with secret "s1" has been updated, the update's
\* response carried "s2", and the state still holds "s1"
C15_Witness ==
  /\ kind = "webhook_endpoint"
  /\ Len(calls) = 2 /\ calls[1].method = "New" /\ calls[2].method = "Update"
  /\ op.name = "Update" /\ op.saved
  /\ remote.Secret = "s2"
  /\ state.Secret = Val("s1")

\* what C16 asks of one run of the price's Delete
C16_Step ==
  (kind = "price" /\ op'.name = "Delete") =>
    /\ calls' = calls
    /\ ~op'.called
    /\ HasError(diags')
    /\ diags' \in {<<DecodeError>>, <<PriceDeleteError>>}
    /\ state' = state

\* C16: the price's Delete never calls the remote API and always ends with an
\* error diagnostic, whatever the prior state; the diagnostic is a fixed
\* message that does not depend on the state.
C16_PriceDeleteRefused == [][C16_Step]_vars

\* a created price has been asked to delete: the fixed error is reported, the
\* only remote call is the earlier create and the state is still there
C16_Witness ==
  /\ kind = "price"
  /\ op.name = "Delete"
  /\ diags = <<PriceDeleteError>>
  /\ Len(calls) = 1 /\ calls[1].method = "New"
  /\ state # NoValue

\* what C17 asks of one handler run whose remote call returned an error
C17_Step ==
  (/\ op'.name \in {"Create", "Read", "Update", "ImportState"}
   /\ Len(calls') = Len(calls) + 1
   /\ calls'[Len(calls')].error) =>
    /\ HasError(diags')
    /\ ~op'.populated /\ model' = NoValue
    /\ ~op'.saved /\ state' = state

\* C17: when the remote client returns an error during Create, Read, Update or
\* Import of any resource, the handler records an error diagnostic and returns
\* without calling populateModel and without writing state.
C17_ClientErrorAborts == [][C17_Step]_vars

\* an update of a stored resource whose remote call failed: one error
\* diagnostic, nothing populated, the state still the one stored before
C17_Witness ==
  /\ op.name = "Update" /\ op.clientError
  /\ Len(calls) = 2 /\ calls[2].method = "Update" /\ calls[2].error
  /\ diags = <<ClientError(kind, "Update")>>
  /\ model = NoValue
  /\ state # NoValue /\ state # plan

\* C18: if a typed conversion fails during populateModel in Create, Read,
\* Update or Import of any resource, the conversion error is among that
\* run's diagnostics and the state is not saved.
C18_ConversionErrorStops ==
  (op.populated /\ ~op.converted) =>
    /\ \E i \in 1..Len(diags) : diags[i] = ConversionError
    /\ ~op.saved

\* the word that names a lifecycle operation in a message
OperationWord(name) ==
  CASE name = "Create" -> "create"
    [] name = "Read" -> "read"
    [] name = "Update" -> "update"
    [] name = "Delete" -> "delete"
    [] name = "ImportState" -> "import"

\* the words that name a kind of resource in a message
ResourceWords(k) ==
  CASE k = "webhook_endpoint" -> "webhook endpoint"
    [] k = "product" -> "product"
    [] k = "price" -> "price"
    [] k = "coupon" -> "coupon"

\* C19: the error diagnostic produced for a remote client error names the
\* lifecycle operation that was attempted and the kind of resource it was
\* attempted on, for every operation of every resource.
C19_ClientErrorNamesOperation ==
  op.clientError =>
    \E i \in 1..Len(diags) :
      /\ diags[i].severity = "error"
      /\ diags[i].detail.verb = OperationWord(op.name)
      /\ diags[i].detail.noun = ResourceWords(kind)

(***************************************************************************)
(* StripeProvider.Configure and the Configure method of the resources.     *)
(* plan holds the provider configuration (StripeProviderModel), remote the *)
(* process environment, model the ConfigureResponse of the provider, state *)
(* the sc field of each resource, op the outcome of decoding the           *)
(* configuration and the credential that was resolved.                     *)
(***************************************************************************)

\* resp.Diagnostics.AddAttributeError(path, summary, detail)
AttributeError(path, summary, detail) ==
  [severity |-> "error", path |-> path, summary |-> summary,
   detail |-> detail]

UnknownAPIKeyError ==
  AttributeError("api_key", "Unknown Stripe API key",
                 "The Stripe API key must be set.")

MissingAPIKeyError ==
  AttributeError("api_key", "Missing Stripe API key",
                 "The Stripe API key must be set.")

UnexpectedConfigureTypeError ==
  Diagnostic("error", "Unexpected Resource Configure Type",
             "Expected *client.API")

\* a resolution under which the environment wins over the configuration
ResolveAPIKey_EnvFirst(config, env) ==
  IF env.STRIPE_API_KEY # "" THEN env.STRIPE_API_KEY
  ELSE ValueString(config.APIKey)

\* apiKey := os.Getenv("STRIPE_API_KEY"), replaced by the configured value
\* whenever that value is not null
ResolveAPIKey(config, env) ==
  IF ~IsNull(config.APIKey) THEN ValueString(config.APIKey)
  ELSE env.STRIPE_API_KEY

\* client.New(apiKey, nil)
ClientNew(apiKey) == Ptr([type |-> "*client.API", key |-> apiKey])

\* the values the api_key attribute of the configuration can take
ConfigAPIKeys == {Null, Unknown} \cup {Val(s) : s \in Strings \cup {""}}

\* the values of STRIPE_API_KEY; an unset variable reads as ""
EnvAPIKeys == Strings \cup {""}

ZeroConfigureResponse == [DataSourceData |-> Nil, ResourceData |-> Nil]

InitConfigure ==
  /\ kind = "provider"
  /\ pc = "start"
  /\ plan \in [APIKey : ConfigAPIKeys]
  /\ remote \in [STRIPE_API_KEY : EnvAPIKeys]
  /\ model = ZeroConfigureResponse
  /\ state = [k \in Kinds |-> Nil]
  /\ params = NoValue
  /\ op = NoValue
  /\ diags = <<>>
  /\ calls = <<>>

\* StripeProvider.Configure
Configure ==
  /\ kind = "provider"
  /\ pc = "start"
  /\ pc' = "configured"
  /\ \E decoded \in BOOLEAN :
       LET apiKey == ResolveAPIKey(plan, remote)
       IN  /\ op' = [name |-> "Configure", decoded |-> decoded,
                     apiKey |-> IF decoded /\ ~IsUnknown(plan.APIKey)
                                THEN apiKey ELSE ""]
           /\ IF ~decoded
              THEN /\ diags' = diags \o <<DecodeError>>
                   /\ model' = model
              ELSE IF IsUnknown(plan.APIKey)
              THEN /\ diags' = diags \o <<UnknownAPIKeyError>>
                   /\ model' = model
              ELSE IF apiKey = ""
              THEN /\ diags' = diags \o <<MissingAPIKeyError>>
                   /\ model' = model
              ELSE /\ diags' = diags
                   /\ model' = [DataSourceData |-> ClientNew(apiKey),
                                ResourceData |-> ClientNew(apiKey)]
  /\ UNCHANGED <<kind, state, plan, remote, params, calls>>

\* the Configure method of resource k, called with req.ProviderData set to
\* the ResourceData of the provider
ResourceConfigure(k) ==
  /\ kind = "provider"
  /\ LET ProviderData == model.ResourceData
     IN  IF ProviderData = Nil
         THEN UNCHANGED <<state, diags>>
         ELSE IF ProviderData.v.type # "*client.API"
         THEN /\ diags' = diags \o <<UnexpectedConfigureTypeError>>
              /\ UNCHANGED state
         ELSE /\ state' = [state EXCEPT ![k] = ProviderData]
              /\ UNCHANGED diags
  /\ UNCHANGED <<kind, pc, plan, remote, params, model, op, calls>>

WebhookEndpointResourceConfigure == ResourceConfigure("webhook_endpoint")

ProductResourceConfigure == ResourceConfigure("product")

PriceResourceConfigure == ResourceConfigure("price")

CouponResourceConfigure == ResourceConfigure("coupon")

NextConfigure ==
  \/ Configure
  \/ WebhookEndpointResourceConfigure
  \/ ProductResourceConfigure
  \/ PriceResourceConfigure
  \/ CouponResourceConfigure

SpecConfigure == InitConfigure /\ [][NextConfigure]_vars

\* the configuration was decoded and Configure has returned
ConfigureReturned == pc = "configured" /\ op.decoded

\* some diagnostic is an error on the api_key attribute
ErrorOnAPIKey ==
  \E i \in 1..Len(diags) :
    /\ diags[i].severity = "error"
    /\ "path" \in DOMAIN diags[i]
    /\ diags[i].path = "api_key"

\* every resource that holds a client holds the one the provider handed out
ResourcesHoldHandle ==
  \A k \in Kinds : state[k] # Nil => state[k] = model.ResourceData

\* a source holds a credential: a configured value that is a non-empty
\* string, or a non-empty environment variable
CredentialAvailable ==
  \/ /\ ~IsNull(plan.APIKey)
     /\ ~IsUnknown(plan.APIKey)
     /\ ValueString(plan.APIKey) # ""
  \/ remote.STRIPE_API_KEY # ""

\* C20 as stated: once Configure has returned, a client handle is handed out
\* exactly when the configuration or the environment holds a credential (and
\* the configured value is not Unknown); the handle carries the configured
\* api_key when there is one and the environment variable otherwise; without
\* a handle there is an error on api_key.
C20_HandleIffAvailable ==
  ConfigureReturned =>
    /\ (model.ResourceData # Nil) <=>
         (CredentialAvailable /\ ~IsUnknown(plan.APIKey))
    /\ model.ResourceData # Nil =>
         model.ResourceData.v.key = ResolveAPIKey(plan, remote)
    /\ model.ResourceData = Nil => ErrorOnAPIKey
    /\ ResourcesHoldHandle

\* C20: once Configure has returned, the credential is the configured api_key
\* whenever that attribute is not null (the empty string included) and the
\* STRIPE_API_KEY environment variable otherwise; a client handle carrying
\* that credential is handed out, and is the only client a resource can
\* hold, exactly when the configured value is known and the credential is
\* not empty; otherwise there is an error on api_key, no handle, and no
\* resource holds a client.
C20_HandleIffResolvedNonEmpty ==
  ConfigureReturned =>
    LET credential == IF IsNull(plan.APIKey) THEN remote.STRIPE_API_KEY
                      ELSE ValueString(plan.APIKey)
        handed == ~IsUnknown(plan.APIKey) /\ credential # ""
    IN  /\ (model.ResourceData # Nil) <=> handed
        /\ handed =>
             /\ model.ResourceData = ClientNew(credential)
             /\ model.DataSourceData = ClientNew(credential)
             /\ ~HasError(diags)
        /\ ~handed =>
             /\ ErrorOnAPIKey
             /\ model.DataSourceData = Nil
             /\ \A k \in Kinds : state[k] = Nil
        /\ ResourcesHoldHandle

\* the api_key is not configured, the environment holds a credential, and
\* every resource has been configured with the client made from it
C20_Witness ==
  /\ ConfigureReturned
  /\ IsNull(plan.APIKey)
  /\ remote.STRIPE_API_KEY = "a"
  /\ \A k \in Kinds : state[k] = ClientNew("a")

\* the api_key is configured as the empty string while the environment holds
\* a credential: Configure reports the missing key and hands out no client
C20_WitnessEmptyConfigured ==
  /\ ConfigureReturned
  /\ plan.APIKey = Val("")
  /\ remote.STRIPE_API_KEY = "a"
  /\ model.ResourceData = Nil
  /\ diags = <<MissingAPIKeyError>>

(***************************************************************************)
(* Further properties of the lifecycle handlers.                           *)
(***************************************************************************)

\* what C21 asks of one run of ImportState
C21_Step ==
  op'.name = "ImportState" =>
    /\ state = NoValue /\ plan' = NoValue /\ params' = NoValue
    /\ Len(calls') = Len(calls) + 1
    /\ LET call == calls'[Len(calls')]
       IN  /\ call.method = "Get"
           /\ call.key \in RemoteIds
           /\ state' # state => (~call.error /\ op'.saved)
           /\ op'.saved =>
                /\ ~call.error
                /\ remote'.ID = call.key
                /\ state'.Id = Val(call.key)
                /\ state' = populateModelOf(kind,
                                            [ZeroModel(kind) EXCEPT
                                               !.Id = Val(call.key)],
                                            remote', op'.converted)

\* C21: for every resource, ImportState has the identifier as its only input,
\* makes one remote Get with exactly that identifier, writes state only when
\* that Get succeeded, and the model it writes has Id equal to the identifier
\* and every other attribute as populateModel produces it from the fetched
\* object.
C21_ImportReadsFirst == [][C21_Step]_vars

\* a coupon imported under "id2": one successful Get with that key, and a
\* state with that Id and the fetched object's name
C21_Witness ==
  /\ kind = "coupon"
  /\ op.name = "ImportState" /\ op.saved /\ op.converted
  /\ calls = <<Call("Get", "id2", "coupon", FALSE)>>
  /\ state.Id = Val("id2")
  /\ remote = [FullRemote("coupon") EXCEPT !.ID = "id2"]
  /\ state.Name = StringNullIfEmpty(remote.Name)
  /\ state.Name # Null

\* what C23 asks of one handler run
C23_Step ==
  op'.n = op.n + 1 =>
    /\ Len(calls') \in {Len(calls), Len(calls) + 1}
    /\ \A i \in 1..Len(calls) : calls'[i] = calls[i]
    /\ op'.called <=> Len(calls') = Len(calls) + 1
    /\ op'.clientError =>
         /\ Len(calls') = Len(calls) + 1
         /\ calls'[Len(calls')].error
    /\ diags' = <<DecodeError>> => calls' = calls

\* C23: every run of Create, Read, Update, Delete and ImportState of every
\* resource makes at most one call to the remote API client and none after a
\* call that returned an error; a run that fails to decode its plan or state
\* makes none.
C23_OneCallPerInvocation == [][C23_Step]_vars

\* three handler runs: a create that called once, an update whose single call
\* failed, and a read that failed to decode its state and called nothing
C23_Witness ==
  /\ op.n = 3 /\ op.name = "Read" /\ diags = <<DecodeError>>
  /\ Len(calls) = 2
  /\ calls[1].method = "New" /\ ~calls[1].error
  /\ calls[2].method = "Update" /\ calls[2].error

\* C24: every remote call of the coupon's Create, Read, Update and
\* ImportState carries the expansion "currency_options"; the coupon's Delete
\* carries none.
C24_CouponExpand ==
  kind = "coupon" =>
    \A i \in 1..Len(calls) :
      /\ calls[i].method \in {"New", "Get", "Update"} =>
           calls[i].expand = {"currency_options"}
      /\ calls[i].method = "Del" => calls[i].expand = {}

\* a coupon imported, updated and deleted: the Get and the Update carry the
\* expansion and the Del does not
C24_Witness ==
  /\ kind = "coupon"
  /\ Len(calls) = 3
  /\ calls[1].method = "Get" /\ calls[1].expand = {"currency_options"}
  /\ calls[2].method = "Update" /\ calls[2].expand = {"currency_options"}
  /\ calls[3].method = "Del" /\ calls[3].expand = {}
  /\ state = NoValue

(***************************************************************************)
(* Further properties of buildCreateParams (checked under SpecCreate).     *)
(***************************************************************************)

\* the scalar attributes a create request can carry
CreateScalars(k) ==
  CASE k = "webhook_endpoint" -> {"APIVersion", "Description", "URL"}
    [] k = "product" ->
         {"Active", "DefaultPrice", "Description", "Name", "Shippable",
          "StatementDescriptor", "TaxCode", "UnitLabel", "URL"}
    [] k = "coupon" ->
         {"Duration", "DurationInMonths", "MaxRedemptions", "Name",
          "PercentOff", "RedeemBy"}

\* the lists of strings a create request carries as a slice of strings
CreateStringLists(k) ==
  CASE k = "webhook_endpoint" -> {"EnabledEvents"}
    [] k = "product" -> {"Images"}
    [] k = "coupon" -> {}

\* the attributes a create request carries as an object of its own
CreateObjects(k) ==
  CASE k = "webhook_endpoint" -> {}
    [] k = "product" -> {"MarketingFeatures", "PackageDimensions"}
    [] k = "coupon" -> {"AppliesTo", "CurrencyOptions"}

\* the strings of a known list, in order ("" for a null element)
PlanStrings(l) ==
  [i \in 1..Len(ListElements(l)) |-> ValueString(ListElements(l)[i])]

\* what holds of the id, the scalars, the metadata and the objects of every
\* create request
C22_Common ==
  /\ kind \in {"product", "coupon"} =>
       params.ID = IF plan.Id.k = "value" THEN Ptr(plan.Id.v) ELSE Nil
  /\ \A f \in CreateScalars(kind) :
       params[f] = IF plan[f].k = "value" THEN Ptr(plan[f].v) ELSE Nil
  /\ \A f \in CreateObjects(kind) : (params[f] # Nil) <=> plan[f].k = "value"
  /\ \A key \in DOMAIN MapElements(plan.Metadata) :
       /\ params.Metadata # Nil
       /\ key \in DOMAIN params.Metadata.v
       /\ params.Metadata.v[key] = ValueString(plan.Metadata.v[key])
  /\ params.Metadata # Nil =>
       DOMAIN params.Metadata.v = DOMAIN MapElements(plan.Metadata)
  /\ kind = "product" =>
       /\ params.PackageDimensions # Nil =>
            \A d \in {"Height", "Length", "Weight", "Width"} :
              params.PackageDimensions.v[d] = Ptr(plan.PackageDimensions.v[d].v)
       /\ params.MarketingFeatures # Nil =>
            SentStrings("MarketingFeatures", params.MarketingFeatures) =
              PlanStrings(plan.MarketingFeatures)
  /\ (kind = "coupon" /\ params.AppliesTo # Nil) =>
       IF params.AppliesTo.v.Products = Nil
       THEN ListElements(plan.AppliesTo) = <<>>
       ELSE SentStrings("AppliesTo", params.AppliesTo.v.Products) =
              PlanStrings(plan.AppliesTo)

C22_WitnessEmptyList ==
  /\ pc = "createParams" /\ kind = "product"
  /\ plan.Images = Val(<<>>)
  /\ params.Images = Nil

(***************************************************************************)
(* Planning: the plan modifiers of the schemas applied to a prior state    *)
(* (NoValue when the resource is being created) and a proposed plan, and   *)
(* the request that the planned action then builds.  op holds what the     *)
(* modifiers answered, diags the diagnostics of the planning.              *)
(***************************************************************************)

\* the attributes whose schema carries RequiresReplace()
RequiresReplaceAttributes(k) ==
  CASE k = "webhook_endpoint" -> {"APIVersion"}
    [] k = "product" -> {"Id"}
    [] k = "price" -> {}
    [] k = "coupon" -> {"Id", "AppliesTo", "PercentOff"}

\* a faulty modifier function that does not look for removed keys
CurrencyOptionsRequiresReplace_KeepsRemoved(stateValue, planValue) ==
  IF Equal(planValue, stateValue) THEN FALSE
  ELSE LET planCurrencyOptions == MapElements(planValue)
           stateCurrencyOptions == MapElements(stateValue)
       IN  \E key \in DOMAIN planCurrencyOptions \cap DOMAIN stateCurrencyOptions :
             \/ stateCurrencyOptions[key].AmountOff # planCurrencyOptions[key].AmountOff
             \/ stateCurrencyOptions[key].TopLevel # planCurrencyOptions[key].TopLevel

\* the function given to mapplanmodifier.RequiresReplaceIf on currency_options:
\* the value of response.RequiresReplace when it returns
CurrencyOptionsRequiresReplace(stateValue, planValue) ==
  IF Equal(planValue, stateValue) THEN FALSE
  ELSE LET planCurrencyOptions == MapElements(planValue)
           stateCurrencyOptions == MapElements(stateValue)
       IN  \/ \E key \in DOMAIN planCurrencyOptions :
                /\ key \in DOMAIN stateCurrencyOptions
                /\ \/ stateCurrencyOptions[key].AmountOff #
                        planCurrencyOptions[key].AmountOff
                   \/ stateCurrencyOptions[key].TopLevel #
                        planCurrencyOptions[key].TopLevel
           \/ \E key \in DOMAIN stateCurrencyOptions :
                key \notin DOMAIN planCurrencyOptions

\* a faulty modifier that also refuses the value on an existing resource
DisallowOnCreateOnValue_Always(value, stateRaw, planValue) ==
  IF Equal(planValue, Val(value))
  THEN <<AttributeError("disabled", "Client Error",
                        [cannotCreateWith |-> value])>>
  ELSE <<>>

\* disallowOnCreateOnValueModifier.PlanModifyBool: the diagnostics it adds
DisallowOnCreateOnValue(value, stateRaw, planValue) ==
  IF stateRaw = NoValue /\ Equal(planValue, Val(value))
  THEN <<AttributeError("disabled", "Client Error",
                        [cannotCreateWith |-> value])>>
  ELSE <<>>

InitPlan ==
  /\ kind \in Kinds
  /\ pc = "start"
  /\ state \in {NoValue} \cup StoredModels(kind)
  /\ IF state = NoValue
     THEN \E base \in BaseModels(kind), id \in CreateIds(kind) :
            PlanIsEdit(kind, CreatePlan(kind, base, id), 1, 1)
     ELSE PlanIsEdit(kind, state, 1, 1)
  /\ remote = NoValue
  /\ params = NoValue
  /\ model = NoValue
  /\ op = NoValue
  /\ diags = <<>>
  /\ calls = <<>>

\* the plan modifiers of the schema of the resource: RequiresReplace and
\* RequiresReplaceIf answer only for an existing resource
ModifyPlan ==
  /\ pc = "start"
  /\ pc' = "planned"
  /\ LET currencyOptions ==
           /\ kind = "coupon" /\ state # NoValue
           /\ CurrencyOptionsRequiresReplace(state.CurrencyOptions,
                                             plan.CurrencyOptions)
         attributes ==
           /\ state # NoValue
           /\ \E a \in RequiresReplaceAttributes(kind) : ~Equal(plan[a], state[a])
     IN  op' = [name |-> "ModifyPlan",
                currencyOptionsRequiresReplace |-> currencyOptions,
                requiresReplace |-> currencyOptions \/ attributes]
  /\ diags' = IF kind = "webhook_endpoint"
              THEN DisallowOnCreateOnValue(TRUE, state, plan.Disabled)
              ELSE <<>>
  /\ UNCHANGED <<kind, state, plan, remote, params, model, calls>>

\* a plan for a resource without state is applied by Create
ApplyCreate ==
  /\ pc = "planned" /\ ~HasError(diags) /\ state = NoValue
  /\ \E order \in IterationOrders(kind, plan) :
       params' = buildCreateParamsOf(kind, plan, order)
  /\ pc' = "createParams"
  /\ UNCHANGED <<kind, state, plan, remote, model, op, diags, calls>>

\* a plan for an existing resource that needs no replacement is applied by Update
ApplyUpdate ==
  /\ pc = "planned" /\ ~HasError(diags) /\ state # NoValue
  /\ ~op.requiresReplace
  /\ params' = buildUpdateParamsOf(kind, state, plan)
  /\ pc' = "updateParams"
  /\ UNCHANGED <<kind, state, plan, remote, model, op, diags, calls>>

\* a plan that needs replacement is applied by Delete and then Create: no
\* Update runs
ApplyReplace ==
  /\ pc = "planned" /\ ~HasError(diags) /\ state # NoValue
  /\ op.requiresReplace
  /\ pc' = "replace"
  /\ UNCHANGED <<kind, state, plan, remote, params, model, op, diags, calls>>

NextPlan ==
  \/ ModifyPlan
  \/ ApplyCreate
  \/ ApplyUpdate
  \/ ApplyReplace

SpecPlan == InitPlan /\ [][NextPlan]_vars

\* some diagnostic is an error on the attribute at the given path
ErrorOnAttribute(path) ==
  \E i \in 1..Len(diags) :
    /\ diags[i].severity = "error"
    /\ "path" \in DOMAIN diags[i]
    /\ diags[i].path = path

\* the currency options of the state and of the plan, none for a null map
StateCurrencyOptions == MapElements(state.CurrencyOptions)

PlanCurrencyOptions == MapElements(plan.CurrencyOptions)

\* C25: for an existing coupon the currency_options modifier asks for a
\* replacement exactly when plan and state differ and either a key of both
\* has another amount_off or top_level, or a key of the state is missing from
\* the plan (a null plan has no key); a plan that only adds keys asks for
\* none, so whenever buildUpdateParams runs for a coupon the plan's keys
\* include the state's and the entries of the common keys are equal.
C25_ReplaceUnlessOnlyAdded ==
  (kind = "coupon" /\ state # NoValue) =>
    /\ pc = "planned" =>
         (op.currencyOptionsRequiresReplace <=>
            /\ plan.CurrencyOptions # state.CurrencyOptions
            /\ \/ \E c \in DOMAIN StateCurrencyOptions \cap
                           DOMAIN PlanCurrencyOptions :
                    StateCurrencyOptions[c] # PlanCurrencyOptions[c]
               \/ DOMAIN StateCurrencyOptions \ DOMAIN PlanCurrencyOptions # {})
    /\ pc = "updateParams" =>
         /\ DOMAIN StateCurrencyOptions \subseteq DOMAIN PlanCurrencyOptions
         /\ \A c \in DOMAIN StateCurrencyOptions :
              PlanCurrencyOptions[c] = StateCurrencyOptions[c]

\* a coupon with the option usd whose plan adds gbp: no replacement is asked
\* for, the update runs and sends gbp only
C25_Witness ==
  /\ kind = "coupon" /\ pc = "updateParams"
  /\ DOMAIN StateCurrencyOptions = {"usd"}
  /\ DOMAIN PlanCurrencyOptions = {"usd", "gbp"}
  /\ ~op.currencyOptionsRequiresReplace
  /\ DOMAIN params.CurrencyOptions.v = {"gbp"}

\* a coupon with the option usd whose plan has no currency options: a
\* replacement is asked for and no update runs
C25_WitnessRemoved ==
  /\ kind = "coupon" /\ pc = "replace"
  /\ DOMAIN StateCurrencyOptions = {"usd"}
  /\ IsNull(plan.CurrencyOptions)
  /\ op.currencyOptionsRequiresReplace

C26_WitnessExisting ==
  /\ kind = "webhook_endpoint" /\ pc = "updateParams"
  /\ state.Disabled = Val(FALSE) /\ plan.Disabled = Val(TRUE)
  /\ diags = <<>>
  /\ params.Disabled = Ptr(TRUE)

(***************************************************************************)
(* Update against a remote that applies the request faithfully.  remote is *)
(* the remote object, state the model a read of it stores, plan a plan     *)
(* that needs no replacement.  The remote is not part of the provider: it  *)
(* is modelled as the specification describes it (a present field          *)
(* overwrites, an empty string clears a string, an empty metadata value    *)
(* deletes the key, an absent field is left untouched).                    *)
(***************************************************************************)

\* the remote metadata after a request's metadata: "" deletes the key
ApplyMetadata(remoteMetadata, sent) ==
  LET old == IF remoteMetadata = Nil THEN [key \in {} |-> ""] ELSE remoteMetadata.v
      keys == {key \in DOMAIN old \cup DOMAIN sent :
                 IF key \in DOMAIN sent THEN sent[key] # "" ELSE TRUE}
  IN  Ptr([key \in keys |-> IF key \in DOMAIN sent THEN sent[key] ELSE old[key]])

\* the value of field f of the remote object after the request field sent
ApplyField(f, old, sent) ==
  CASE f = "Metadata" -> ApplyMetadata(old, sent.v)
    [] f \in {"EnabledEvents", "Images"} ->
         Ptr([i \in 1..Len(sent.v) |->
                IF sent.v[i] = Nil THEN "" ELSE sent.v[i].v])
    [] f = "MarketingFeatures" ->
         Ptr([i \in 1..Len(sent.v) |->
                [Name |-> IF sent.v[i].Name = Nil THEN "" ELSE sent.v[i].Name.v]])
    [] f \in {"DefaultPrice", "TaxCode"} ->
         IF sent.v = "" THEN Nil ELSE Ptr([ID |-> sent.v])
    [] f = "PackageDimensions" ->
         Ptr([d \in DOMAIN sent.v |-> IF sent.v[d] = Nil THEN 0 ELSE sent.v[d].v])
    [] f = "CurrencyOptions" ->
         LET had == IF old = Nil THEN [c \in {} |-> Nil] ELSE old.v
         IN  Ptr([c \in DOMAIN had \cup DOMAIN sent.v |->
                    IF c \in DOMAIN sent.v
                    THEN [AmountOff |-> IF sent.v[c].AmountOff = Nil THEN 0
                                        ELSE sent.v[c].AmountOff.v]
                    ELSE had[c]])
    [] OTHER -> sent.v

\* the remote object r after the update request p
ApplyParams(r, p) ==
  [f \in DOMAIN r |->
     IF f = "Status"
     THEN (IF p.Disabled = Nil THEN r.Status
           ELSE IF p.Disabled.v THEN "disabled" ELSE "enabled")
     ELSE IF f = "ID" \/ f \notin DOMAIN p THEN r[f]
     ELSE IF p[f] = Nil THEN r[f]
     ELSE ApplyField(f, r[f], p[f])]

InitApply ==
  /\ kind \in Kinds
  /\ pc = "start"
  /\ \E r \in {ZeroRemote(kind), FullRemote(kind)} : RemoteIsEdit(kind, r, 1, 1)
  /\ state = populateModelOf(kind, ImportedModel(kind), remote, TRUE)
  /\ PlanIsEdit(kind, state, 1,
                IF remote \in {ZeroRemote(kind), FullRemote(kind)}
                THEN MaxEdits ELSE 1)
  /\ \A a \in RequiresReplaceAttributes(kind) : Equal(plan[a], state[a])
  /\ kind = "coupon" =>
       ~CurrencyOptionsRequiresReplace(state.CurrencyOptions, plan.CurrencyOptions)
  /\ params = NoValue
  /\ model = NoValue
  /\ op = NoValue
  /\ diags = <<>>
  /\ calls = <<>>

\* Update whose remote call succeeds: buildUpdateParams, the remote applies
\* the request and returns the object, populateModel on the plan, State.Set
UpdateApplied(from, to) ==
  /\ pc = from
  /\ pc' = to
  /\ LET sent == buildUpdateParamsOf(kind, state, plan)
         returned == ApplyParams(remote, sent)
     IN  /\ params' = sent
         /\ remote' = returned
         /\ model' = populateModelOf(kind, plan, returned, TRUE)
         /\ state' = model'
  /\ UNCHANGED <<kind, plan, op, diags, calls>>

FirstApply == UpdateApplied("start", "updated")

\* the same plan applied once more to the state the first apply stored
SecondApply == UpdateApplied("updated", "reapplied")

NextApply ==
  \/ FirstApply
  \/ SecondApply

SpecApply == InitApply /\ [][NextApply]_vars

\* a Go map of strings as a function, none for nil
RemoteMetadataMap == IF remote.Metadata = Nil THEN [key \in {} |-> ""] ELSE remote.Metadata.v

\* C27: for a product or a webhook endpoint, the model a successful Update
\* writes equals the plan on every configurable attribute, and applying the
\* same plan again sends an empty request and changes nothing; plans that
\* set a list to Null included.
C27_UpdateReachesPlan ==
  kind \in {"product", "webhook_endpoint"} =>
    /\ pc = "updated" =>
         \A i \in 1..Len(Configurable(kind)) :
           state[Configurable(kind)[i]] = plan[Configurable(kind)[i]]
    /\ pc = "reapplied" => NoFieldSet(params)

\* C30: for a webhook endpoint, a product or a coupon whose plan metadata
\* has no empty value, after an Update the remote metadata holds exactly the
\* plan's keys with the plan's values, and the populated metadata is the
\* plan's map, Null when the plan's map is Null or empty.
C30_MetadataRoundTrip ==
  (/\ kind \in {"webhook_endpoint", "product", "coupon"}
   /\ pc = "updated"
   /\ \A key \in DOMAIN MapElements(plan.Metadata) :
        ValueString(plan.Metadata.v[key]) # "") =>
    /\ DOMAIN RemoteMetadataMap = DOMAIN MapElements(plan.Metadata)
    /\ \A key \in DOMAIN RemoteMetadataMap :
         RemoteMetadataMap[key] = ValueString(plan.Metadata.v[key])
    /\ model.Metadata =
         IF DOMAIN MapElements(plan.Metadata) = {} THEN Null ELSE plan.Metadata
    /\ state.Metadata = model.Metadata

\* a coupon whose remote metadata had k1 and k2 and whose plan keeps k1 with
\* another value and drops k2: the request sets k1 and clears k2, and the
\* remote and the model end up with the plan's map
C30_Witness ==
  /\ kind = "coupon" /\ pc = "updated"
  /\ plan.Metadata = Val([key \in {"k1"} |-> Val("b")])
  /\ params.Metadata = Ptr([key \in MetaKeys |-> IF key = "k1" THEN "b" ELSE ""])
  /\ remote.Metadata = Ptr([key \in {"k1"} |-> "b"])
  /\ model.Metadata = plan.Metadata

\* a product whose plan has no metadata while the remote had some: every key
\* is cleared and the populated metadata is Null
C30_WitnessNull ==
  /\ kind = "product" /\ pc = "updated"
  /\ IsNull(plan.Metadata)
  /\ params.Metadata = Ptr([key \in MetaKeys |-> ""])
  /\ RemoteMetadataMap = [key \in {} |-> ""]
  /\ model.Metadata = Null


(***************************************************************************)
(* Further properties of populateModel.                                    *)
(***************************************************************************)
\* the attributes on which populateModel of the same remote object gives
\* different values for different prior models
DependsOnPrior ==
  {a \in DOMAIN model \ {"Id", "Secret"} :
     \E m2 \in PriorModels(kind) : populateModelOf(kind, m2, remote, TRUE)[a] # model[a]}

\* C28: what populateModel writes to an attribute other than id and secret
\* depends on the remote object only: started from any other prior model it
\* gives the same value; a product whose remote object has no default price,
\* no tax code or no marketing features gets Null for that attribute.
C28_PopulateIgnoresPrior ==
  pc = "populated" =>
    /\ DependsOnPrior = {}
    /\ kind = "product" =>
         \A a \in {"DefaultPrice", "TaxCode", "MarketingFeatures"} :
           remote[a] = Nil => model[a] = Null


(***************************************************************************)
(* Further properties of the coupon's buildCreateParams.                   *)
(***************************************************************************)
\* the entry under currency c is the request's top-level AmountOff and Currency
IsTopLevelPair(c) ==
  /\ params.Currency = Ptr(c)
  /\ params.AmountOff = Ptr(plan.CurrencyOptions.v[c].AmountOff.v)

\* the entry under currency c is in the request's per-currency map
IsInCurrencyMap(c) ==
  /\ c \in DOMAIN params.CurrencyOptions.v
  /\ params.CurrencyOptions.v[c] =
       [AmountOff |-> Ptr(plan.CurrencyOptions.v[c].AmountOff.v)]

\* C29: coupon buildCreateParams puts every currency-options entry of the plan
\* in the request exactly once, as the top-level pair or in the per-currency
\* map, and builds the same request whatever the order in which the entries
\* are visited, however many entries are marked top_level.
C29_EveryEntryOnce ==
  (pc = "createParams" /\ kind = "coupon" /\ plan.CurrencyOptions.k = "value") =>
    /\ \A c \in DOMAIN plan.CurrencyOptions.v : IsTopLevelPair(c) # IsInCurrencyMap(c)
    /\ \A order \in Orders(DOMAIN plan.CurrencyOptions.v) :
         CouponResource_buildCreateParams(plan, order) = params

====
